---- MODULE Spec2Model ----
(***************************************************************************)
(* Model of the Exoscale CSI driver (driver/helpers.go, driver/node.go):   *)
(* the identifier codec, the capacity negotiator, the controller-side      *)
(* volume and snapshot lifecycle run against the provider's block-storage  *)
(* API, the paginated listings, and the node-side staging, publishing and  *)
(* resizing of a volume on a host (driver/driver.go).                      *)
(*                                                                         *)
(* Strings that the code splits or formats are sequences of one-character  *)
(* strings; byte sizes are scaled (GiB bytes per GiB) because the real     *)
(* values do not fit a model checker's integers.                            *)
(***************************************************************************)
EXTENDS Integers, Sequences, FiniteSets, TLC

VARIABLES
    codec,   \* the codec's input, its encoding and its decoding
    cap,     \* the negotiator's input and its outcome
    vols,    \* provider: the block-storage volumes, by UUID
    snaps,   \* provider: the snapshots, by UUID
    call,    \* controller: the request each caller has in flight, and its answer
    ncalls,  \* number of requests started
    hist,    \* history: volumes made and answers given per name, context per attachment
    pager,   \* a listing: its request, the token to send next, the pages answered
    probe,   \* a mount table read: the table, the question asked and the answer
    host,    \* node: the devices, the paths and the mount table of the host; the
             \* requests left to start, the last one answered, the ones that raced
    nreq     \* node: the request each caller has in flight, and its answer

pureVars == <<codec, cap, pager, probe, host, nreq>>
ctlVars == <<vols, snaps, call, ncalls, hist, pager, probe, host, nreq>>
vars == <<codec, cap, vols, snaps, call, ncalls, hist, pager, probe, host, nreq>>

(***************************************************************************)
(* Bounds of the model.                                                    *)
(***************************************************************************)
\* number of bytes in one GiB (scaled down from 2^30)
GiB == 2
\* length of a UUID in characters (scaled down from 36)
UuidLen == 2
\* longest zone name drawn for the codec
MaxZoneLen == 2
\* longest raw identifier drawn for the codec
MaxStrLen == 4
\* number of controller requests a behaviour starts, one after the other
MaxCalls == 3
\* number of controller requests a behaviour starts, two at a time
MaxRaceCalls == 2
\* largest page size a listing asks for
MaxEntries == 3
\* length of the UUID prefix that names a device (scaled down from 20)
devDiskIDLength == 1
\* number of lines of a mount table drawn for a read
MaxMounts == 2
\* number of node requests a behaviour starts on a drawn host
MaxNodeCalls == 1
\* number of node requests a behaviour starts on a clean host, one after
\* the other
MaxSeqCalls == 3
\* number of node requests a behaviour starts on a clean host, two at a time
MaxNodeRaceCalls == 3
\* number of node requests a behaviour starts to follow a volume's life on a
\* node: stage, publish, unpublish, unstage, and unpublish once more
MaxTripCalls == 5

(***************************************************************************)
(* Program constants.                                                      *)
(***************************************************************************)
DefaultVolumeSizeGiB == 100
MinimalVolumeSizeGiB == 10
MaximumVolumeSizeGiB == 10000

Nil == "nil"

(***************************************************************************)
(* Strings.                                                                *)
(***************************************************************************)
\* the characters of the model: the separator, two hexadecimal digits and
\* one letter that is no hexadecimal digit
Chars == {"/", "a", "b", "g"}
HexChars == {"a", "b"}

StrUpTo(n) == UNION {[1..k -> Chars] : k \in 0..n}

\* strings.Split(s, "/"): the segments between the separators, empty ones kept
RECURSIVE SplitFrom(_, _, _)
SplitFrom(s, i, cur) ==
    IF i > Len(s) THEN <<cur>>
    ELSE IF s[i] = "/" THEN <<cur>> \o SplitFrom(s, i + 1, <<>>)
    ELSE SplitFrom(s, i + 1, Append(cur, s[i]))

Split(s) == SplitFrom(s, 1, <<>>)

\* v3.ParseUUID accepts exactly the strings of UUID shape
IsUUID(s) == Len(s) = UuidLen /\ \A i \in 1..Len(s) : s[i] \in HexChars

ParseUUID(s) ==
    IF IsUUID(s) THEN [id |-> s, err |-> Nil] ELSE [id |-> <<>>, err |-> "invalid UUID"]

ValidUUIDs == {s \in [1..UuidLen -> Chars] : IsUUID(s)}

(***************************************************************************)
(* Identifier codec.                                                       *)
(***************************************************************************)
\* the identifier with its two parts in the wrong order
exoscaleIDSwapped(zoneName, id) == id \o <<"/">> \o zoneName

\* fmt.Sprintf("%s/%s", zoneName, id)
exoscaleID(zoneName, id) == zoneName \o <<"/">> \o id

\* decoding that accepts any identifier of two segments or more
getExoscaleIDLax(exoID) ==
    LET s == Split(exoID) IN
    IF Len(s) < 2
    THEN [zone |-> <<>>, id |-> <<>>, err |-> "malformed exoscale id"]
    ELSE LET p == ParseUUID(s[2]) IN
         IF p.err # Nil
         THEN [zone |-> <<>>, id |-> <<>>, err |-> p.err]
         ELSE [zone |-> s[1], id |-> p.id, err |-> Nil]

getExoscaleID(exoID) ==
    LET s == Split(exoID) IN
    IF Len(s) # 2
    THEN [zone |-> <<>>, id |-> <<>>, err |-> "malformed exoscale id"]
    ELSE LET p == ParseUUID(s[2]) IN
         IF p.err # Nil
         THEN [zone |-> <<>>, id |-> <<>>, err |-> p.err]
         ELSE [zone |-> s[1], id |-> p.id, err |-> Nil]

\* nodeService.NodeGetInfo: the node's identifier and its topology segment
NodeGetInfo(zoneName, nodeID) ==
    [NodeId |-> exoscaleID(zoneName, nodeID), AccessibleTopology |-> zoneName]

(***************************************************************************)
(* Capacity negotiator.                                                    *)
(***************************************************************************)
convertGiBToBytes(nGiB) == nGiB * GiB
\* a conversion that rounds up to the next GiB
convertBytesToGiBUp(nBytes) == (nBytes \div GiB) + 1

convertBytesToGiB(nBytes) == nBytes \div GiB

MinimalVolumeSizeBytes == convertGiBToBytes(MinimalVolumeSizeGiB)
MaximumVolumeSizeBytes == convertGiBToBytes(MaximumVolumeSizeGiB)

errLimitLessThanRequiredBytes == "limit size is less than required size"
errRequiredBytesLessThanMinimun == "required size is less than the minimun size"
errLimitLessThanMinimum == "limit size is less than the minimun size"
errRequiredBytesGreaterThanMaximun == "required size is greater than the maximum size"
errLimitGreaterThanMaximum == "limit size is greater than the maximum size"

CapErrors == {errLimitLessThanRequiredBytes, errRequiredBytesLessThanMinimun,
              errLimitLessThanMinimum, errRequiredBytesGreaterThanMaximun,
              errLimitGreaterThanMaximum}

\* a *csi.CapacityRange: the nil pointer, or the two fields
NilRange == [isNil |-> TRUE, RequiredBytes |-> 0, LimitBytes |-> 0]
CapRange(required, limit) == [isNil |-> FALSE, RequiredBytes |-> required, LimitBytes |-> limit]

\* "return required" only when no limit is set
RequiredWinsAlone(requiredSet, limitSet) == requiredSet /\ ~limitSet

\* rule 8 of the negotiator: when does "return required" apply
RequiredWins(requiredSet, limitSet) == requiredSet

\* the negotiator with the bound checks made before the limit < required check
getNewVolumeSizeBoundsFirst(capRange) ==
    IF capRange.isNil THEN [size |-> MinimalVolumeSizeBytes, err |-> Nil]
    ELSE
    LET requiredBytes == capRange.RequiredBytes
        limitBytes == capRange.LimitBytes
        requiredSet == requiredBytes > 0
        limitSet == limitBytes > 0
    IN
    IF ~requiredSet /\ ~limitSet
    THEN [size |-> MinimalVolumeSizeBytes, err |-> Nil]
    ELSE IF requiredSet /\ ~limitSet /\ requiredBytes < MinimalVolumeSizeBytes
    THEN [size |-> 0, err |-> errRequiredBytesLessThanMinimun]
    ELSE IF limitSet /\ limitBytes < MinimalVolumeSizeBytes
    THEN [size |-> 0, err |-> errLimitLessThanMinimum]
    ELSE IF requiredSet /\ requiredBytes > MaximumVolumeSizeBytes
    THEN [size |-> 0, err |-> errRequiredBytesGreaterThanMaximun]
    ELSE IF ~requiredSet /\ limitSet /\ limitBytes > MaximumVolumeSizeBytes
    THEN [size |-> 0, err |-> errLimitGreaterThanMaximum]
    ELSE IF requiredSet /\ limitSet /\ limitBytes < requiredBytes
    THEN [size |-> 0, err |-> errLimitLessThanRequiredBytes]
    ELSE IF requiredSet
    THEN [size |-> requiredBytes, err |-> Nil]
    ELSE [size |-> limitBytes, err |-> Nil]

getNewVolumeSize(capRange) ==
    IF capRange.isNil THEN [size |-> MinimalVolumeSizeBytes, err |-> Nil]
    ELSE
    LET requiredBytes == capRange.RequiredBytes
        limitBytes == capRange.LimitBytes
        requiredSet == requiredBytes > 0
        limitSet == limitBytes > 0
    IN
    IF ~requiredSet /\ ~limitSet
    THEN [size |-> MinimalVolumeSizeBytes, err |-> Nil]
    ELSE IF requiredSet /\ limitSet /\ limitBytes < requiredBytes
    THEN [size |-> 0, err |-> errLimitLessThanRequiredBytes]
    ELSE IF requiredSet /\ ~limitSet /\ requiredBytes < MinimalVolumeSizeBytes
    THEN [size |-> 0, err |-> errRequiredBytesLessThanMinimun]
    ELSE IF limitSet /\ limitBytes < MinimalVolumeSizeBytes
    THEN [size |-> 0, err |-> errLimitLessThanMinimum]
    ELSE IF requiredSet /\ requiredBytes > MaximumVolumeSizeBytes
    THEN [size |-> 0, err |-> errRequiredBytesGreaterThanMaximun]
    ELSE IF ~requiredSet /\ limitSet /\ limitBytes > MaximumVolumeSizeBytes
    THEN [size |-> 0, err |-> errLimitGreaterThanMaximum]
    ELSE IF requiredSet /\ limitSet /\ requiredBytes = limitBytes
    THEN [size |-> requiredBytes, err |-> Nil]
    ELSE IF RequiredWins(requiredSet, limitSet)
    THEN [size |-> requiredBytes, err |-> Nil]
    ELSE IF limitSet
    THEN [size |-> limitBytes, err |-> Nil]
    ELSE [size |-> MinimalVolumeSizeBytes, err |-> Nil]

\* the codec and the negotiator at rest
NoDec == [zone |-> <<>>, id |-> <<>>, err |-> "pending"]
CodecIdle == [phase |-> "off", zone |-> <<>>, uuid |-> <<>>, text |-> <<>>, dec |-> NoDec]
NoSize == [size |-> 0, err |-> "pending"]
CapIdle == [phase |-> "off", range |-> NilRange, res |-> NoSize]
PagerIdle == [phase |-> "off", kind |-> "", maxEntries |-> 0, start |-> <<>>, token |-> <<>>,
              down |-> {}, broken |-> {}, pages |-> <<>>, code |-> "pending"]

(***************************************************************************)
(* The host of a node: devices, paths and the mount table.                 *)
(*                                                                         *)
(* The mount table names a mounted device as the mount call named it, a    *)
(* bind mount of a path carries the source of the mount the path lies in,  *)
(* and the mounts the node makes are shared (the node plugin runs with     *)
(* bidirectional mount propagation).                                       *)
(***************************************************************************)
Staging == "/staging"
Target == "/target"
Paths == {Staging, Target}

devDiskByID == "/dev/disk/by-id"
devDiskPrefix == "virtio-"
defaultFSType == "ext4"

\* the path under which the host shows the device of a volume
ByIDPath(volumeID) ==
    <<devDiskByID, devDiskPrefix, SubSeq(volumeID, 1, devDiskIDLength)>>

\* strings.Split(s, sep)
RECURSIVE SplitAt(_, _, _, _)
SplitAt(s, sep, i, cur) ==
    IF i > Len(s) THEN <<cur>>
    ELSE IF s[i] = sep THEN <<cur>> \o SplitAt(s, sep, i + 1, <<>>)
    ELSE SplitAt(s, sep, i + 1, Append(cur, s[i]))

\* optional fields of a line of /proc/self/mountinfo
TagShared == <<"s", "h", "a", "r", "e", "d">>
TagSharedPeer == TagShared \o <<":", "1">>
TagMaster == <<"m", "a", "s", "t", "e", "r", ":", "1">>
TagSharedLike == TagShared \o <<"x">>

\* a line of the mount table; block tells that the mounted node is a device
Mount(mountPoint, source, optionalFields, fsType, mountOptions, block) ==
    [mountPoint |-> mountPoint, source |-> source, optionalFields |-> optionalFields,
     fsType |-> fsType, mountOptions |-> mountOptions, block |-> block]
NoMountInfo == [isNil |-> TRUE, info |-> Mount("", <<>>, <<>>, "", <<>>, FALSE)]

\* diskUtils.GetMountInfo: the first line of the table mounted on the path
RECURSIVE FirstOn(_, _)
FirstOn(table, targetPath) ==
    IF table = <<>> THEN NoMountInfo
    ELSE IF Head(table).mountPoint = targetPath THEN [isNil |-> FALSE, info |-> Head(table)]
    ELSE FirstOn(Tail(table), targetPath)

GetMountInfo(table, readErr, targetPath) ==
    IF readErr THEN [err |-> "read mountinfo", mountInfo |-> NoMountInfo]
    ELSE [err |-> Nil, mountInfo |-> FirstOn(table, targetPath)]

\* a check that takes every mount on the path for a shared one
IsSharedMountedAnyMount(table, readErr, targetPath, devicePath) ==
    [mounted |-> GetMountInfo(table, readErr, targetPath).err = Nil
                 /\ ~GetMountInfo(table, readErr, targetPath).mountInfo.isNil,
     err |-> Nil]

\* diskUtils.IsSharedMounted
IsSharedMounted(table, readErr, targetPath, devicePath) ==
    LET got == GetMountInfo(table, readErr, targetPath)
        mountInfo == got.mountInfo.info
        sharedMounted == \E i \in 1..Len(mountInfo.optionalFields) :
                             SplitAt(mountInfo.optionalFields[i], ":", 1, <<>>)[1] = TagShared
    IN  IF targetPath = "" THEN [mounted |-> FALSE, err |-> "target path empty"]
        ELSE IF got.err # Nil THEN [mounted |-> FALSE, err |-> got.err]
        ELSE IF got.mountInfo.isNil THEN [mounted |-> FALSE, err |-> Nil]
        ELSE IF ~sharedMounted THEN [mounted |-> FALSE, err |-> "target not shared mounter"]
        ELSE IF devicePath # <<>> /\ mountInfo.source # devicePath
             THEN [mounted |-> FALSE, err |-> "target not mounter on right device"]
        ELSE [mounted |-> TRUE, err |-> Nil]

NoAnswer == [mounted |-> FALSE, err |-> "pending"]
ProbeIdle == [phase |-> "off", table |-> <<>>, readErr |-> FALSE, targetPath |-> "",
              devicePath |-> <<>>, res |-> NoAnswer]

\* the device paths of the model's volumes, and the device of the root
\* file system
DevA == ByIDPath(<<"a", "a">>)
DevB == ByIDPath(<<"b", "b">>)
DevPaths == {DevA, DevB}
RootDev == <<"/dev", "root", <<>>>>

NoDevice == [state |-> "absent", fs |-> "", ro |-> FALSE]
Device(fs, ro) == [state |-> "device", fs |-> fs, ro |-> ro]
\* a character device under the name of a volume's device
CharDevice == [state |-> "char", fs |-> "", ro |-> FALSE]

\* a host with no device, no path and no mount, on which no life of a
\* volume is followed
HostIdle == [dev |-> [d \in DevPaths |-> NoDevice], nodes |-> [p \in Paths |-> "none"],
             mounts |-> <<>>, formats |-> 0, calls |-> 0, last |-> <<>>, raced |-> <<>>,
             trip |-> [at |-> 0 - 1, first |-> <<>>]]

\* the lines of the table mounted on a path, oldest first
MountsOn(h, path) == SelectSeq(h.mounts, LAMBDA e : e.mountPoint = path)
\* the options the mount table shows for a mount made with the given ones
Shown(mountOptions) ==
    <<IF \E i \in 1..Len(mountOptions) : mountOptions[i] = "ro" THEN "ro" ELSE "rw", "relatime">>

\* diskUtils.GetDevicePath: the by-id path, once it resolves to a block device
GetDevicePath(h, volumeID) ==
    LET devicePath == ByIDPath(volumeID) IN
    IF devicePath \notin DevPaths \/ h.dev[devicePath].state = "absent"
    THEN [path |-> <<>>, err |-> "ErrNotExist"]
    ELSE IF h.dev[devicePath].state = "char"
    THEN [path |-> <<>>, err |-> "device path is not device"]
    ELSE [path |-> devicePath, err |-> Nil]

\* diskUtils.IsBlockDevice: what a stat of the path shows, through the
\* youngest mount on it
IsBlockDevice(h, path) ==
    IF h.nodes[path] = "none" THEN [block |-> FALSE, err |-> "ErrNotExist"]
    ELSE [block |-> MountsOn(h, path) # <<>>
                    /\ MountsOn(h, path)[Len(MountsOn(h, path))].block,
          err |-> Nil]

\* a format-and-mount that mounts a device again on a mount point it is
\* mounted on
FormatAndMountAgain(h, targetPath, devicePath, fsType, mountOptions) ==
    LET fs == IF fsType = "" THEN defaultFSType ELSE fsType
        blank == h.dev[devicePath].fs = ""
        formatted == IF blank THEN [h EXCEPT !.dev[devicePath].fs = fs, !.formats = @ + 1]
                     ELSE h
    IN  IF h.dev[devicePath].state # "device" THEN [host |-> h, err |-> "no such device"]
        ELSE IF ~blank /\ h.dev[devicePath].fs # fs
        THEN [host |-> h, err |-> "wrong fs type"]
        ELSE IF h.nodes[targetPath] # "dir"
        THEN [host |-> formatted, err |-> "mount point does not exist"]
        ELSE [host |-> [formatted EXCEPT !.mounts = Append(@,
                          Mount(targetPath, devicePath, <<TagSharedPeer>>, fs,
                                Shown(mountOptions), FALSE))],
              err |-> Nil]

\* diskUtils.FormatAndMount: formats a device that holds no file system,
\* then mounts it; the mount point must be a directory, and a device is not
\* mounted twice on one mount point
FormatAndMount(h, targetPath, devicePath, fsType, mountOptions) ==
    LET fs == IF fsType = "" THEN defaultFSType ELSE fsType
        blank == h.dev[devicePath].fs = ""
        formatted == IF blank THEN [h EXCEPT !.dev[devicePath].fs = fs, !.formats = @ + 1]
                     ELSE h
    IN  IF h.dev[devicePath].state # "device" THEN [host |-> h, err |-> "no such device"]
        ELSE IF ~blank /\ h.dev[devicePath].fs # fs
        THEN [host |-> h, err |-> "wrong fs type"]
        ELSE IF h.nodes[targetPath] # "dir"
        THEN [host |-> formatted, err |-> "mount point does not exist"]
        ELSE IF \E i \in 1..Len(h.mounts) :
                   h.mounts[i].mountPoint = targetPath /\ h.mounts[i].source = devicePath
        THEN [host |-> formatted, err |-> "EBUSY"]
        ELSE [host |-> [formatted EXCEPT !.mounts = Append(@,
                          Mount(targetPath, devicePath, <<TagSharedPeer>>, fs,
                                Shown(mountOptions), FALSE))],
              err |-> Nil]

\* createMountPoint: a file with its parent directories, or a directory
createMountPoint(h, path, file) ==
    IF file
    THEN IF h.nodes[path] = "dir" THEN [host |-> h, err |-> "EISDIR"]
         ELSE [host |-> [h EXCEPT !.nodes[path] = "file"], err |-> Nil]
    ELSE IF h.nodes[path] = "file" THEN [host |-> h, err |-> "ENOTDIR"]
         ELSE [host |-> [h EXCEPT !.nodes[path] = "dir"], err |-> Nil]

\* diskUtils.MountToTarget with the bind option: a device is bound on a
\* file, a directory on a directory
MountToTarget(h, block, devicePath, sourcePath, targetPath, mountOptions) ==
    LET under == MountsOn(h, sourcePath)
        from == IF under = <<>> THEN Mount("/", RootDev, <<TagSharedPeer>>, defaultFSType, <<>>, FALSE)
                ELSE under[Len(under)]
        line == IF block
                THEN Mount(targetPath, devicePath, <<TagSharedPeer>>, "devtmpfs",
                           Shown(mountOptions), TRUE)
                ELSE Mount(targetPath, from.source, <<TagSharedPeer>>, from.fsType,
                           Shown(mountOptions), FALSE)
    IN  IF block /\ h.nodes[targetPath] # "file" THEN [host |-> h, err |-> "ENOTDIR"]
        ELSE IF ~block /\ (h.nodes[targetPath] # "dir" \/ h.nodes[sourcePath] # "dir")
        THEN [host |-> h, err |-> "ENOTDIR"]
        ELSE [host |-> [h EXCEPT !.mounts = Append(@, line)], err |-> Nil]

\* the table without its youngest line on the path
RECURSIVE WithoutLast(_, _)
WithoutLast(table, path) ==
    IF table = <<>> THEN <<>>
    ELSE IF table[Len(table)].mountPoint = path THEN SubSeq(table, 1, Len(table) - 1)
    ELSE Append(WithoutLast(SubSeq(table, 1, Len(table) - 1), path), table[Len(table)])

\* an unmount that answers success and unmounts nothing
UnmountNothing(h, target) == [host |-> h, err |-> Nil]

\* diskUtils.Unmount (CleanupMountPoint): nothing for a path that does not
\* exist; else unmounts once, and removes the path if no mount is left on it
Unmount(h, target) ==
    LET after == [h EXCEPT !.mounts = WithoutLast(@, target)] IN
    IF h.nodes[target] = "none" THEN [host |-> h, err |-> Nil]
    ELSE IF MountsOn(after, target) # <<>> THEN [host |-> after, err |-> "failed to unmount"]
    ELSE [host |-> [after EXCEPT !.nodes[target] = "none"], err |-> Nil]

(***************************************************************************)
(* The provider and the controller's requests.                             *)
(***************************************************************************)
Callers == {"c1", "c2"}
Names == {"pvc-1", "pvc-2"}

Zone1 == <<"g">>
Zone2 == <<"g", "a">>
Zones == {Zone1, Zone2}
\* controllerService.zoneName: the zone of the node the controller runs on
HomeZone == Zone1

UuidOf(c) == [i \in 1..UuidLen |-> c]
VolIDs == {UuidOf("a"), UuidOf("b")}
\* a UUID of two different digits
UuidAB == [i \in 1..UuidLen |-> IF i = 1 THEN "a" ELSE "b"]
SnapIDs == {UuidOf("a"), UuidOf("b"), UuidAB}
SnapNames == {"snap-1", "snap-2"}
InstIDs == {UuidOf("a"), UuidOf("b")}

NoInstance == <<>>
NoVol == [exists |-> FALSE, name |-> "", size |-> 0, zone |-> <<>>, instance |-> NoInstance]
Vol(name, size, zone) ==
    [exists |-> TRUE, name |-> name, size |-> size, zone |-> zone, instance |-> NoInstance]

\* what a zonal client sees of a volume or snapshot
VolIn(zone, id) == id \in VolIDs /\ vols[id].exists /\ vols[id].zone = zone
SnapIn(zone, id) == id \in SnapIDs /\ snaps[id].zone = zone
NoSnap == [zone |-> <<"/">>, name |-> "", vol |-> <<>>]
Snap(zone, name, vol) == [zone |-> zone, name |-> name, vol |-> vol]
\* volume.BlockStorageSnapshots: the snapshots taken of a volume
SnapsOf(zone, vol) == {s \in SnapIDs : SnapIn(zone, s) /\ snaps[s].vol = vol}

Key(zone, name) == <<zone, name>>
Keys == Zones \X Names
VolsOf(key) == {id \in VolIDs : vols[id].exists /\ Key(vols[id].zone, vols[id].name) = key}

\* the answer of a request: the gRPC code (a plain Go error travels as
\* Unknown), the error, and the fields of the response
NoCtx == [name |-> "", id |-> <<>>, zone |-> <<>>]
NoRes == [code |-> "pending", err |-> Nil, id |-> <<>>, bytes |-> 0, ctx |-> NoCtx,
          nodeExpansion |-> FALSE, topology |-> <<>>, confirmed |-> "",
          source |-> <<>>, ready |-> FALSE]
Fail(code, err) == [NoRes EXCEPT !.code = code, !.err = err]
Ok == [NoRes EXCEPT !.code = "OK"]

\* a *csi.VolumeCapability: nil, or an access mode and an access type
NilCap == [isNil |-> TRUE, mode |-> "", type |-> ""]
Capability(mode, type) == [isNil |-> FALSE, mode |-> mode, type |-> type]
supportedAccessModes == {"SINGLE_NODE_WRITER", "SINGLE_NODE_MULTI_WRITER"}

validateVolumeCapability(volumeCapability) ==
    IF volumeCapability.isNil THEN "volumeCapability is nil"
    ELSE IF volumeCapability.mode \in supportedAccessModes THEN Nil
    ELSE "access mode not supported"

\* the topology of a volume: the one segment that names its zone
newZoneTopology(zoneName) == zoneName

\* a resolution that takes some zone when the request names several
getRequiredZoneAny(requirements, defaultZone) ==
    IF requirements = {} THEN [zone |-> defaultZone, err |-> Nil]
    ELSE [zone |-> CHOOSE z \in requirements : TRUE, err |-> Nil]

\* the zone a CreateVolume request asks for: the controller's own zone when
\* the request names none, the zone named, or an error when it names several
getRequiredZone(requirements, defaultZone) ==
    IF requirements = {} THEN [zone |-> defaultZone, err |-> Nil]
    ELSE IF Cardinality(requirements) > 1
    THEN [zone |-> <<>>, err |-> "only one zone is supported"]
    ELSE [zone |-> CHOOSE z \in requirements : TRUE, err |-> Nil]

Idle == [op |-> "none", pc |-> "idle", name |-> "", topo |-> {}, zone |-> <<>>, id |-> <<>>,
         inst |-> <<>>, range |-> NilRange, cap |-> NilCap, caps |-> {}, sizeGiB |-> 0,
         snap |-> <<>>, operation |-> "none",
         saw |-> NoVol, err |-> Nil, issued |-> {}, res |-> NoRes]

Free(c) == call[c].pc = "idle"
\* an answer is handed to the orchestrator before anything else happens
Answering == \E c \in Callers : call[c].pc = "done"
CanStart(c) == Free(c) /\ ~Answering
InFlight(c, op, pc) == ~Answering /\ call[c].op = op /\ call[c].pc = pc

Begin(c, op, pc) == [Idle EXCEPT !.op = op, !.pc = pc]
Done(r, res) == [r EXCEPT !.pc = "done", !.res = res]
Issue(r, what) == [r EXCEPT !.issued = @ \cup {what}]
\* a mutation the provider accepts answers a *v3.Operation, pending
Accepted(r) == [r EXCEPT !.pc = "wait", !.operation = "pending"]

\* identifiers the orchestrator hands in: those of the model's resources in
\* either zone, and malformed ones
MalformedIds == {UuidOf("a"), exoscaleID(Zone1, <<"g">>), exoscaleID(exoscaleID(Zone1, <<>>), UuidOf("a"))}
VolumeIds == {exoscaleID(z, u) : z \in Zones, u \in VolIDs} \cup MalformedIds
SnapshotIds == {exoscaleID(z, u) : z \in Zones, u \in SnapIDs} \cup MalformedIds
NodeIds == {NodeGetInfo(HomeZone, i).NodeId : i \in InstIDs} \cup {UuidOf("a")}

\* capacity ranges of CreateVolume requests
CreateRanges == {NilRange, CapRange(convertGiBToBytes(MinimalVolumeSizeGiB + 1), 0),
                 CapRange(convertGiBToBytes(MinimalVolumeSizeGiB) + 1, 0),
                 CapRange(convertGiBToBytes(MinimalVolumeSizeGiB + 2),
                          convertGiBToBytes(MinimalVolumeSizeGiB + 1))}
\* capacity ranges of ControllerExpandVolume requests
ExpandRanges == {NilRange, CapRange(convertGiBToBytes(MinimalVolumeSizeGiB + 2), 0),
                 CapRange(0, convertGiBToBytes(MinimalVolumeSizeGiB) + 1),
                 CapRange(1, 0)}
Capabilities == {NilCap, Capability("SINGLE_NODE_WRITER", "mount"),
                 Capability("SINGLE_NODE_WRITER", "block"),
                 Capability("MULTI_NODE_MULTI_WRITER", "mount")}

\* history: per zone and name, since no volume of the name was in the zone,
\* the number of volumes the provider made, the number of CreateVolume
\* requests that succeeded, the identifiers they answered and whether the
\* wait of one of them was cancelled; per volume, the context answered by the
\* request that attached it, and the instance of an attachment whose wait was
\* cancelled
HistIdle ==
    [create |-> [k \in Keys |-> [created |-> 0, oks |-> 0, returned |-> {},
                                 cancelled |-> FALSE]],
     publish |-> [id \in VolIDs |-> NoCtx],
     attaching |-> [id \in VolIDs |-> NoInstance]]

\* ctx.Err() of a request the orchestrator gave up on
ErrCanceled == "context canceled"

\* a CreateVolume request for the key ended: record its answer
Answered(key, res) ==
    IF res.code = "OK"
    THEN [hist EXCEPT !.create[key].returned = @ \cup {res.id}, !.create[key].oks = @ + 1]
    ELSE IF res.err = ErrCanceled THEN [hist EXCEPT !.create[key].cancelled = TRUE]
    ELSE hist

\* errors.Is(err, v3.ErrNotFound)
IsNotFoundNever(err) == FALSE

IsNotFound(err) == err = "ErrNotFound"

\* a provider call may fail for a reason of its own, whatever the resource
ProviderAnswers(answer) == {answer, "ErrAPI"}
\* client.Wait polls the operation until it succeeds, and fails when the
\* operation fails or when the context of the request is cancelled
WaitAnswers == {Nil, "ErrWait", ErrCanceled}
\* a wait that takes a cancelled poll for the operation's success
PolledAnyway(r, err) ==
    [Issue(r, "wait") EXCEPT !.err = IF err = ErrCanceled THEN Nil ELSE err]

\* client.Wait(ctx, op, v3.OperationStateSuccess): nil only for an operation
\* that reached success; a cancelled poll leaves the operation as it was
Polled(r, err) ==
    [Issue(r, "wait") EXCEPT
        !.err = err,
        !.operation = IF err = Nil THEN "success" ELSE IF err = ErrCanceled THEN @ ELSE "failure"]

(***************************************************************************)
(* CreateVolume                                                            *)
(***************************************************************************)
\* a search by name that finds nothing
SameNameNone(listed, name) == {}

\* the volumes of the listing that make CreateVolume answer without creating
SameName(listed, name) == {id \in listed : vols[id].name = name}

StartCreateVolume(c) ==
    \E name \in Names, requirements \in (SUBSET Zones), range \in CreateRanges,
       err \in ProviderAnswers(Nil) :
        /\ CanStart(c)
        /\ ncalls' = ncalls + 1
        /\ LET z == getRequiredZone(requirements, HomeZone)
               r == [Begin(c, "CreateVolume", "list") EXCEPT
                        !.name = name, !.range = range, !.topo = requirements]
           IN  IF z.err # Nil
               THEN call' = [call EXCEPT ![c] = Done(r, Fail("Unknown", z.err))]
               ELSE IF err # Nil
               THEN call' = [call EXCEPT ![c] = Done([r EXCEPT !.zone = z.zone, !.err = err],
                                                     Fail("Unknown", err))]
               ELSE call' = [call EXCEPT ![c] = [r EXCEPT !.zone = z.zone]]
        /\ UNCHANGED <<vols, snaps, hist, pureVars>>

\* ListBlockStorageVolumes, the search by name and the size of the request
CreateVolumeList(c) ==
    LET key == Key(call[c].zone, call[c].name)
        listed == {id \in VolIDs : VolIn(call[c].zone, id)}
        same == SameName(listed, call[c].name)
    IN
    /\ InFlight(c, "CreateVolume", "list")
    /\ \E err \in ProviderAnswers(Nil) :
        LET r == [call[c] EXCEPT !.err = err] IN
        IF err # Nil
        THEN call' = [call EXCEPT ![c] = Done(r, Fail("Unknown", err))] /\ hist' = hist
        ELSE IF same # {}
        THEN \E id \in same :
             LET res == [Ok EXCEPT !.id = exoscaleID(r.zone, id),
                                   !.bytes = convertGiBToBytes(vols[id].size),
                                   !.topology = newZoneTopology(r.zone)]
             IN /\ call' = [call EXCEPT ![c] = Done([r EXCEPT !.saw = vols[id]], res)]
                /\ hist' = Answered(key, res)
        ELSE IF ~r.range.isNil /\ r.range.RequiredBytes % GiB # 0
        THEN /\ call' = [call EXCEPT ![c] =
                    Done(r, Fail("Unknown", "size cannot be exactly converted to GiB"))]
             /\ hist' = hist
        ELSE /\ call' = [call EXCEPT ![c] =
                    [r EXCEPT !.pc = "create",
                              !.sizeGiB = IF r.range.isNil THEN DefaultVolumeSizeGiB
                                          ELSE convertBytesToGiB(r.range.RequiredBytes)]]
             /\ hist' = hist
    /\ UNCHANGED <<vols, snaps, ncalls, pureVars>>

\* CreateBlockStorageVolume: the provider makes a volume under a UUID of its choice
CreateVolumeCreate(c) ==
    LET key == Key(call[c].zone, call[c].name)
        unused == {id \in VolIDs : ~vols[id].exists}
    IN
    /\ InFlight(c, "CreateVolume", "create")
    /\ \/ LET r == [Issue(call[c], "create") EXCEPT !.err = "ErrAPI"] IN
          /\ call' = [call EXCEPT ![c] = Done(r, Fail("Unknown", r.err))]
          /\ UNCHANGED <<vols, hist>>
       \/ \E id \in unused :
          LET r == [Issue(call[c], "create") EXCEPT !.err = Nil] IN
          /\ vols' = [vols EXCEPT ![id] = Vol(r.name, r.sizeGiB, r.zone)]
          /\ call' = [call EXCEPT ![c] = [Accepted(r) EXCEPT !.id = id]]
          /\ hist' = [hist EXCEPT !.create[key].created = @ + 1]
    /\ UNCHANGED <<snaps, ncalls, pureVars>>

\* client.Wait on the create operation
CreateVolumeWait(c) ==
    LET key == Key(call[c].zone, call[c].name) IN
    /\ InFlight(c, "CreateVolume", "wait")
    /\ \E err \in WaitAnswers :
        LET r == Polled(call[c], err)
            res == IF err # Nil THEN Fail("Unknown", err)
                   ELSE [Ok EXCEPT !.id = exoscaleID(r.zone, r.id),
                                   !.bytes = convertGiBToBytes(r.sizeGiB),
                                   !.topology = newZoneTopology(r.zone)]
        IN call' = [call EXCEPT ![c] = Done(r, res)] /\ hist' = Answered(key, res)
    /\ UNCHANGED <<vols, snaps, ncalls, pureVars>>

(***************************************************************************)
(* DeleteVolume                                                            *)
(***************************************************************************)
\* the requests that start by decoding a volume or snapshot identifier and
\* by asking for the client of its zone
StartFrom(c, r, exoID) ==
    /\ CanStart(c)
    /\ ncalls' = ncalls + 1
    /\ LET d == getExoscaleID(exoID)
       IN  \E err \in ProviderAnswers(Nil) :
           call' = [call EXCEPT ![c] =
               IF d.err # Nil THEN Done(r, Fail("Unknown", d.err))
               ELSE IF err # Nil
               THEN Done([r EXCEPT !.zone = d.zone, !.id = d.id, !.err = err],
                         Fail("Unknown", err))
               ELSE [r EXCEPT !.zone = d.zone, !.id = d.id]]

StartWithID(c, op, pc, exoID) == StartFrom(c, Begin(c, op, pc), exoID)

StartDeleteVolume(c) ==
    /\ \E exoID \in VolumeIds : StartWithID(c, "DeleteVolume", "delete", exoID)
    /\ UNCHANGED <<vols, snaps, hist, pureVars>>

\* the history of a volume ends with it, and that of its name with the last
\* volume of the name
AfterDelete(id) ==
    LET key == Key(vols[id].zone, vols[id].name)
        h == [hist EXCEPT !.publish[id] = NoCtx, !.attaching[id] = NoInstance]
    IN IF VolsOf(key) = {id} THEN [h EXCEPT !.create[key] = HistIdle.create[key]] ELSE h

\* the end of a delete request whose delete call answered err # Nil
DeleteFailed(r) ==
    IF IsNotFound(r.err) THEN Done(r, Ok) ELSE Done(r, Fail("Unknown", r.err))

\* DeleteBlockStorageVolume
DeleteVolumeDelete(c) ==
    /\ InFlight(c, "DeleteVolume", "delete")
    /\ \E err \in ProviderAnswers(IF VolIn(call[c].zone, call[c].id) THEN Nil ELSE "ErrNotFound") :
        LET r == [Issue(call[c], "delete") EXCEPT !.err = err] IN
        IF err # Nil
        THEN call' = [call EXCEPT ![c] = DeleteFailed(r)] /\ UNCHANGED <<vols, hist>>
        ELSE /\ vols' = [vols EXCEPT ![r.id] = NoVol]
             /\ hist' = AfterDelete(r.id)
             /\ call' = [call EXCEPT ![c] = Accepted(r)]
    /\ UNCHANGED <<snaps, ncalls, pureVars>>

\* the end of a request at client.Wait
Waited(r, res) == IF r.err # Nil THEN Done(r, Fail("Unknown", r.err)) ELSE Done(r, res)

\* client.Wait on the delete operation
DeleteVolumeWait(c) ==
    /\ InFlight(c, "DeleteVolume", "wait")
    /\ \E err \in WaitAnswers :
        call' = [call EXCEPT ![c] = Waited(Polled(call[c], err), Ok)]
    /\ UNCHANGED <<vols, snaps, ncalls, hist, pureVars>>

(***************************************************************************)
(* DeleteSnapshot                                                          *)
(***************************************************************************)
StartDeleteSnapshot(c) ==
    /\ \E exoID \in SnapshotIds : StartWithID(c, "DeleteSnapshot", "delete", exoID)
    /\ UNCHANGED <<vols, snaps, hist, pureVars>>

\* DeleteBlockStorageSnapshot
DeleteSnapshotDelete(c) ==
    /\ InFlight(c, "DeleteSnapshot", "delete")
    /\ \E err \in ProviderAnswers(IF SnapIn(call[c].zone, call[c].id) THEN Nil ELSE "ErrNotFound") :
        LET r == [Issue(call[c], "delete") EXCEPT !.err = err] IN
        IF err # Nil
        THEN call' = [call EXCEPT ![c] = DeleteFailed(r)] /\ snaps' = snaps
        ELSE /\ snaps' = [snaps EXCEPT ![r.id] = NoSnap]
             /\ call' = [call EXCEPT ![c] = Accepted(r)]
    /\ UNCHANGED <<vols, ncalls, hist, pureVars>>

\* client.Wait on the delete operation
DeleteSnapshotWait(c) ==
    /\ InFlight(c, "DeleteSnapshot", "wait")
    /\ \E err \in WaitAnswers :
        call' = [call EXCEPT ![c] = Waited(Polled(call[c], err), Ok)]
    /\ UNCHANGED <<vols, snaps, ncalls, hist, pureVars>>

(***************************************************************************)
(* ControllerPublishVolume                                                 *)
(***************************************************************************)
PublishContext(volume, id, zoneName) == [name |-> volume.name, id |-> id, zone |-> zoneName]

\* a check that never finds the volume attached
AlreadyPublishedNever(volume, instanceID) == FALSE

\* a check that takes a volume attached to any instance as published
AlreadyPublishedAnywhere(volume, instanceID) == volume.instance # NoInstance

\* "PublishVolume idempotent": the volume fetched is attached to the instance
AlreadyPublished(volume, instanceID) ==
    volume.instance # NoInstance /\ volume.instance = instanceID

\* the node identifier is decoded first, and gives the zone of the client;
\* the zone of the volume identifier is dropped
StartControllerPublishVolume(c) ==
    /\ \E nodeId \in NodeIds, volumeId \in VolumeIds, err \in ProviderAnswers(Nil) :
        /\ CanStart(c)
        /\ ncalls' = ncalls + 1
        /\ LET n == getExoscaleID(nodeId)
               v == getExoscaleID(volumeId)
               r == Begin(c, "ControllerPublishVolume", "get")
           IN  call' = [call EXCEPT ![c] =
                   IF n.err # Nil THEN Done(r, Fail("Unknown", n.err))
                   ELSE IF err # Nil
                   THEN Done([r EXCEPT !.zone = n.zone, !.inst = n.id, !.err = err],
                             Fail("Unknown", err))
                   ELSE IF v.err # Nil
                   THEN Done([r EXCEPT !.zone = n.zone, !.inst = n.id], Fail("Unknown", v.err))
                   ELSE [r EXCEPT !.zone = n.zone, !.inst = n.id, !.id = v.id]]
    /\ UNCHANGED <<vols, snaps, hist, pureVars>>

\* GetBlockStorageVolume and the check that makes the request idempotent
ControllerPublishVolumeGet(c) ==
    /\ InFlight(c, "ControllerPublishVolume", "get")
    /\ \E err \in ProviderAnswers(IF VolIn(call[c].zone, call[c].id) THEN Nil ELSE "ErrNotFound") :
        LET r == [call[c] EXCEPT !.err = err] IN
        call' = [call EXCEPT ![c] =
            IF err # Nil
            THEN IF IsNotFound(err) THEN Done(r, Fail("NotFound", "volume not found"))
                 ELSE Done(r, Fail("Unknown", err))
            ELSE IF AlreadyPublished(vols[r.id], r.inst)
            THEN Done([r EXCEPT !.saw = vols[r.id]],
                      [Ok EXCEPT !.ctx = PublishContext(vols[r.id], r.id, r.zone)])
            ELSE [r EXCEPT !.pc = "attach", !.saw = vols[r.id]]]
    /\ UNCHANGED <<vols, snaps, ncalls, hist, pureVars>>

\* what AttachBlockStorageVolumeToInstance answers for the volume as it is:
\* the provider refuses a volume it does not have and a volume that is attached
AttachAnswer(zone, id) ==
    IF ~VolIn(zone, id) THEN "ErrNotFound"
    ELSE IF vols[id].instance # NoInstance THEN "ErrInvalidRequest: Volume already attached"
    ELSE Nil

\* AttachBlockStorageVolumeToInstance
ControllerPublishVolumeAttach(c) ==
    /\ InFlight(c, "ControllerPublishVolume", "attach")
    /\ \E err \in ProviderAnswers(AttachAnswer(call[c].zone, call[c].id)) :
        LET r == [Issue(call[c], "attach") EXCEPT !.err = err] IN
        IF err # Nil
        THEN call' = [call EXCEPT ![c] = Done(r, Fail("Unknown", err))] /\ vols' = vols
        ELSE /\ vols' = [vols EXCEPT ![r.id].instance = r.inst]
             /\ call' = [call EXCEPT ![c] = Accepted(r)]
    /\ UNCHANGED <<snaps, ncalls, hist, pureVars>>

\* client.Wait on the attach operation
ControllerPublishVolumeWait(c) ==
    /\ InFlight(c, "ControllerPublishVolume", "wait")
    /\ \E err \in WaitAnswers :
        LET r == Polled(call[c], err)
            ctx == PublishContext(r.saw, r.id, r.zone)
        IN /\ call' = [call EXCEPT ![c] = Waited(r, [Ok EXCEPT !.ctx = ctx])]
           /\ hist' = IF err = Nil THEN [hist EXCEPT !.publish[r.id] = ctx]
                      ELSE IF err = ErrCanceled THEN [hist EXCEPT !.attaching[r.id] = r.inst]
                      ELSE hist
    /\ UNCHANGED <<vols, snaps, ncalls, pureVars>>

(***************************************************************************)
(* ControllerUnpublishVolume                                               *)
(***************************************************************************)
StartControllerUnpublishVolume(c) ==
    /\ \E exoID \in VolumeIds : StartWithID(c, "ControllerUnpublishVolume", "detach", exoID)
    /\ UNCHANGED <<vols, snaps, hist, pureVars>>

ErrNotAttached == "ErrInvalidRequest: Volume not attached"

\* only a volume that is gone counts as detached
DetachAlreadyDoneGone(err) == IsNotFound(err)

\* the detach errors the request answers with success: errors.Is(err,
\* v3.ErrNotFound), or v3.ErrInvalidRequest with "Volume not attached"
DetachAlreadyDone(err) == IsNotFound(err) \/ err = ErrNotAttached

\* what DetachBlockStorageVolume answers for the volume as it is
DetachAnswer(zone, id) ==
    IF ~VolIn(zone, id) THEN "ErrNotFound"
    ELSE IF vols[id].instance = NoInstance THEN ErrNotAttached
    ELSE Nil

\* DetachBlockStorageVolume; saw keeps the volume as it was, for the record
ControllerUnpublishVolumeDetach(c) ==
    /\ InFlight(c, "ControllerUnpublishVolume", "detach")
    /\ \E err \in ProviderAnswers(DetachAnswer(call[c].zone, call[c].id))
                    \cup {"ErrInvalidRequest: other"} :
        LET r == [Issue(call[c], "detach") EXCEPT
                     !.err = err,
                     !.saw = IF VolIn(call[c].zone, call[c].id) THEN vols[call[c].id] ELSE NoVol]
        IN
        IF err # Nil
        THEN /\ UNCHANGED <<vols, hist>>
             /\ call' = [call EXCEPT ![c] =
                    IF DetachAlreadyDone(err) THEN Done(r, Ok) ELSE Done(r, Fail("Unknown", err))]
        ELSE /\ vols' = [vols EXCEPT ![r.id].instance = NoInstance]
             /\ hist' = [hist EXCEPT !.publish[r.id] = NoCtx, !.attaching[r.id] = NoInstance]
             /\ call' = [call EXCEPT ![c] = Accepted(r)]
    /\ UNCHANGED <<snaps, ncalls, pureVars>>

\* client.Wait on the detach operation
ControllerUnpublishVolumeWait(c) ==
    /\ InFlight(c, "ControllerUnpublishVolume", "wait")
    /\ \E err \in WaitAnswers :
        call' = [call EXCEPT ![c] = Waited(Polled(call[c], err), Ok)]
    /\ UNCHANGED <<vols, snaps, ncalls, hist, pureVars>>

(***************************************************************************)
(* ControllerExpandVolume                                                  *)
(***************************************************************************)
StartControllerExpandVolume(c) ==
    /\ \E exoID \in VolumeIds, range \in ExpandRanges, capability \in Capabilities :
        StartFrom(c, [Begin(c, "ControllerExpandVolume", "get") EXCEPT
                         !.range = range, !.cap = capability], exoID)
    /\ UNCHANGED <<vols, snaps, hist, pureVars>>

\* an answer that always asks for the node-side expansion
nodeExpansionAlways(capability) == TRUE

\* nodeExpansionRequired: true unless the capability given is a raw block one
nodeExpansionRequired(capability) == ~(~capability.isNil /\ capability.type = "block")

\* the checks between the fetch of the volume and the resize request: the
\* answer that ends the request, or a pending answer when the resize is to be
\* issued; the volume fetched is not looked at
ExpandChecks(volume, capability, range) ==
    LET capErr == IF capability.isNil THEN Nil ELSE validateVolumeCapability(capability)
        new == getNewVolumeSize(range)
    IN
    IF capErr # Nil THEN Fail("InvalidArgument", capErr)
    ELSE IF new.err # Nil THEN Fail("OutOfRange", new.err)
    ELSE IF new.size % GiB # 0 THEN Fail("Unknown", "size cannot be exactly converted to GiB")
    ELSE [NoRes EXCEPT !.bytes = new.size,
                       !.nodeExpansion = nodeExpansionRequired(capability)]

\* GetBlockStorageVolume and the checks of the request
ControllerExpandVolumeGet(c) ==
    /\ InFlight(c, "ControllerExpandVolume", "get")
    /\ \E err \in ProviderAnswers(IF VolIn(call[c].zone, call[c].id) THEN Nil ELSE "ErrNotFound") :
        LET r == [call[c] EXCEPT !.err = err] IN
        call' = [call EXCEPT ![c] =
            IF err # Nil
            THEN IF IsNotFound(err) THEN Done(r, Fail("NotFound", "volume not found"))
                 ELSE Done(r, Fail("Unknown", err))
            ELSE LET res == ExpandChecks(vols[r.id], r.cap, r.range) IN
                 IF res.code # "pending" THEN Done([r EXCEPT !.saw = vols[r.id]], res)
                 ELSE [r EXCEPT !.pc = "resize", !.saw = vols[r.id], !.res = res,
                                !.sizeGiB = convertBytesToGiB(res.bytes)]]
    /\ UNCHANGED <<vols, snaps, ncalls, hist, pureVars>>

\* ResizeBlockStorageVolume: the provider takes the size or refuses the
\* request; the request does not wait for the operation
ControllerExpandVolumeResize(c) ==
    /\ InFlight(c, "ControllerExpandVolume", "resize")
    /\ \E err \in ProviderAnswers(IF VolIn(call[c].zone, call[c].id) THEN Nil ELSE "ErrNotFound") :
        LET r == [Issue(call[c], "resize") EXCEPT !.err = err] IN
        IF err # Nil
        THEN call' = [call EXCEPT ![c] = Done(r, Fail("Unknown", err))] /\ vols' = vols
        ELSE /\ vols' = [vols EXCEPT ![r.id].size = r.sizeGiB]
             /\ call' = [call EXCEPT ![c] = Done(r, [r.res EXCEPT !.code = "OK"])]
    /\ UNCHANGED <<snaps, ncalls, hist, pureVars>>

(***************************************************************************)
(* CreateSnapshot                                                          *)
(***************************************************************************)
\* a search by name that finds nothing
SameSnapshotNameNone(listed, name) == {}

\* the snapshots of the volume that make CreateSnapshot answer without creating
SameSnapshotName(listed, name) == {s \in listed : snaps[s].name = name}

\* the response for a snapshot: its size is left unset
SnapshotResponse(zoneName, snapshotID, volumeID) ==
    [Ok EXCEPT !.id = exoscaleID(zoneName, snapshotID),
               !.source = exoscaleID(zoneName, volumeID),
               !.ready = TRUE]

\* a nil pointer is dereferenced: the handler panics
Panic == Fail("Panic", "nil pointer dereference")

StartCreateSnapshot(c) ==
    /\ \E exoID \in VolumeIds, name \in SnapNames :
        StartFrom(c, [Begin(c, "CreateSnapshot", "get") EXCEPT !.name = name], exoID)
    /\ UNCHANGED <<vols, snaps, hist, pureVars>>

\* GetBlockStorageVolume, GetBlockStorageSnapshot for each snapshot of the
\* volume, and the search by name; an error of either call is logged and the
\* handler goes on with a nil result
CreateSnapshotGet(c) ==
    /\ InFlight(c, "CreateSnapshot", "get")
    /\ \E err \in ProviderAnswers(IF VolIn(call[c].zone, call[c].id) THEN Nil ELSE "ErrNotFound"),
          errSnapshot \in ProviderAnswers(Nil) :
        LET r == [call[c] EXCEPT !.err = err]
            listed == SnapsOf(r.zone, r.id)
            same == SameSnapshotName(listed, r.name)
        IN
        IF err # Nil \/ (listed # {} /\ errSnapshot # Nil)
        THEN call' = [call EXCEPT ![c] = Done(r, Panic)]
        ELSE IF same # {}
        THEN \E s \in same :
             call' = [call EXCEPT ![c] =
                 Done([r EXCEPT !.saw = vols[r.id], !.snap = s],
                      SnapshotResponse(r.zone, s, r.id))]
        ELSE call' = [call EXCEPT ![c] = [r EXCEPT !.pc = "create", !.saw = vols[r.id]]]
    /\ UNCHANGED <<vols, snaps, ncalls, hist, pureVars>>

\* CreateBlockStorageSnapshot: the provider makes a snapshot under a UUID of
\* its choice
CreateSnapshotCreate(c) ==
    LET unused == {s \in SnapIDs : snaps[s] = NoSnap} IN
    /\ InFlight(c, "CreateSnapshot", "create")
    /\ \/ LET r == [Issue(call[c], "create") EXCEPT !.err = "ErrAPI"] IN
          /\ call' = [call EXCEPT ![c] = Done(r, Fail("Unknown", r.err))]
          /\ snaps' = snaps
       \/ \E s \in unused :
          LET r == [Issue(call[c], "create") EXCEPT !.err = Nil] IN
          /\ snaps' = [snaps EXCEPT ![s] = Snap(r.zone, r.name, r.id)]
          /\ call' = [call EXCEPT ![c] = [Accepted(r) EXCEPT !.snap = s]]
    /\ UNCHANGED <<vols, ncalls, hist, pureVars>>

\* client.Wait on the snapshot operation
CreateSnapshotWait(c) ==
    /\ InFlight(c, "CreateSnapshot", "wait")
    /\ \E err \in WaitAnswers :
        LET r == Polled(call[c], err) IN
        call' = [call EXCEPT ![c] =
            IF err # Nil THEN Done(r, Fail("Unknown", err)) ELSE [r EXCEPT !.pc = "fetch"]]
    /\ UNCHANGED <<vols, snaps, ncalls, hist, pureVars>>

\* GetBlockStorageSnapshot of the operation's reference, and the response
CreateSnapshotFetch(c) ==
    /\ InFlight(c, "CreateSnapshot", "fetch")
    /\ \E err \in ProviderAnswers(IF SnapIn(call[c].zone, call[c].snap) THEN Nil ELSE "ErrNotFound") :
        LET r == [call[c] EXCEPT !.err = err] IN
        call' = [call EXCEPT ![c] =
            IF err # Nil THEN Done(r, Fail("Unknown", err))
            ELSE Done(r, SnapshotResponse(r.zone, r.snap, r.id))]
    /\ UNCHANGED <<vols, snaps, ncalls, hist, pureVars>>

CreateSnapshot(c) ==
    \/ CreateSnapshotGet(c) \/ CreateSnapshotCreate(c)
    \/ CreateSnapshotWait(c) \/ CreateSnapshotFetch(c)

(***************************************************************************)
(* ValidateVolumeCapabilities                                              *)
(***************************************************************************)
\* the capability lists of the requests: none, a supported one, and one with
\* an access mode outside the supported list
CapabilityLists == {{}, {Capability("SINGLE_NODE_WRITER", "mount")},
                    {Capability("SINGLE_NODE_WRITER", "mount"),
                     Capability("MULTI_NODE_MULTI_WRITER", "mount")}}

\* &supportedAccessModes[0]
FirstSupportedAccessMode == "SINGLE_NODE_WRITER"

StartValidateVolumeCapabilities(c) ==
    /\ \E exoID \in VolumeIds, capabilities \in CapabilityLists :
        StartFrom(c, [Begin(c, "ValidateVolumeCapabilities", "get") EXCEPT
                         !.caps = capabilities], exoID)
    /\ UNCHANGED <<vols, snaps, hist, pureVars>>

\* GetBlockStorageVolume, whose volume is not looked at, and the answer
ValidateVolumeCapabilitiesGet(c) ==
    /\ InFlight(c, "ValidateVolumeCapabilities", "get")
    /\ \E err \in ProviderAnswers(IF VolIn(call[c].zone, call[c].id) THEN Nil ELSE "ErrNotFound") :
        LET r == [call[c] EXCEPT !.err = err] IN
        call' = [call EXCEPT ![c] =
            IF err # Nil THEN Done(r, Fail("Unknown", err))
            ELSE IF r.caps = {}
            THEN Done([r EXCEPT !.saw = vols[r.id]],
                      Fail("InvalidArgument", "volumeCapabilities is not provided"))
            ELSE Done([r EXCEPT !.saw = vols[r.id]],
                      [Ok EXCEPT !.confirmed = FirstSupportedAccessMode])]
    /\ UNCHANGED <<vols, snaps, ncalls, hist, pureVars>>

ValidateVolumeCapabilities(c) == ValidateVolumeCapabilitiesGet(c)

(***************************************************************************)
(* The controller serving requests.                                        *)
(***************************************************************************)
\* the answer of a request reaches the orchestrator
Return(c) ==
    /\ call[c].pc = "done"
    /\ call' = [call EXCEPT ![c] = Idle]
    /\ UNCHANGED <<vols, snaps, ncalls, hist, pureVars>>

\* the steps of each request
CreateVolume(c) == CreateVolumeList(c) \/ CreateVolumeCreate(c) \/ CreateVolumeWait(c)
DeleteVolume(c) == DeleteVolumeDelete(c) \/ DeleteVolumeWait(c)
DeleteSnapshot(c) == DeleteSnapshotDelete(c) \/ DeleteSnapshotWait(c)
ControllerPublishVolume(c) ==
    \/ ControllerPublishVolumeGet(c)
    \/ ControllerPublishVolumeAttach(c)
    \/ ControllerPublishVolumeWait(c)
ControllerUnpublishVolume(c) ==
    ControllerUnpublishVolumeDetach(c) \/ ControllerUnpublishVolumeWait(c)
ControllerExpandVolume(c) == ControllerExpandVolumeGet(c) \/ ControllerExpandVolumeResize(c)

\* a node request: its arguments, its answer, the host calls it made in
\* their order, and the host as the request found it
NreqIdle == [op |-> "none", pc |-> "idle", volumeId |-> <<>>, stagingTargetPath |-> "",
             targetPath |-> "", cap |-> NilCap, fsType |-> "", readonly |-> FALSE,
             mountFlags |-> <<>>, devicePath |-> <<>>, sourcePath |-> <<>>,
             mountOptions |-> <<>>,
             code |-> "pending", ops |-> <<>>, was |-> HostIdle, after |-> FALSE]
NodeIdle ==
    /\ probe = ProbeIdle
    /\ host = HostIdle
    /\ nreq = [c \in Callers |-> NreqIdle]

\* the provider holds a snapshot, taken earlier of a volume since deleted,
\* and no volume
Init ==
    /\ codec = CodecIdle /\ cap = CapIdle
    /\ vols = [id \in VolIDs |-> NoVol]
    /\ snaps = [id \in SnapIDs |->
                   IF id = UuidOf("a") THEN Snap(HomeZone, "snap-0", <<>>) ELSE NoSnap]
    /\ call = [c \in Callers |-> Idle]
    /\ ncalls = 0
    /\ hist = HistIdle
    /\ pager = PagerIdle
    /\ NodeIdle

\* the callers of a behaviour whose requests come one after the other
SeqCallers == {"c1"}
More == ncalls < MaxCalls
MoreRace == ncalls < MaxRaceCalls

\* provisioning: volumes made and deleted, snapshots deleted, by two
\* requests at a time
NextProvision ==
    \E c \in Callers :
        \/ MoreRace /\ StartCreateVolume(c)
        \/ MoreRace /\ StartDeleteVolume(c)
        \/ MoreRace /\ StartDeleteSnapshot(c)
        \/ CreateVolume(c) \/ DeleteVolume(c) \/ DeleteSnapshot(c)
        \/ Return(c)

\* provisioning by one request after the other
NextProvisionSeq ==
    \E c \in SeqCallers :
        \/ More /\ StartCreateVolume(c)
        \/ More /\ StartDeleteVolume(c)
        \/ More /\ StartDeleteSnapshot(c)
        \/ CreateVolume(c) \/ DeleteVolume(c) \/ DeleteSnapshot(c)
        \/ Return(c)

\* attachment: volumes made, attached, detached and deleted
NextAttach ==
    \E c \in SeqCallers :
        \/ More /\ StartCreateVolume(c)
        \/ More /\ StartControllerPublishVolume(c)
        \/ More /\ StartControllerUnpublishVolume(c)
        \/ More /\ StartDeleteVolume(c)
        \/ CreateVolume(c) \/ ControllerPublishVolume(c)
        \/ ControllerUnpublishVolume(c) \/ DeleteVolume(c)
        \/ Return(c)

\* expansion: volumes made and resized
NextExpand ==
    \E c \in SeqCallers :
        \/ More /\ StartCreateVolume(c)
        \/ More /\ StartControllerExpandVolume(c)
        \/ CreateVolume(c) \/ ControllerExpandVolume(c)
        \/ Return(c)

\* validation: volumes made and their capabilities validated
NextValidate ==
    \E c \in SeqCallers :
        \/ More /\ StartCreateVolume(c)
        \/ More /\ StartValidateVolumeCapabilities(c)
        \/ CreateVolume(c) \/ ValidateVolumeCapabilities(c)
        \/ Return(c)

\* snapshots: volumes made, snapshots of them taken and deleted
NextSnapshot ==
    \E c \in SeqCallers :
        \/ More /\ StartCreateVolume(c)
        \/ More /\ StartCreateSnapshot(c)
        \/ More /\ StartDeleteSnapshot(c)
        \/ CreateVolume(c) \/ CreateSnapshot(c) \/ DeleteSnapshot(c)
        \/ Return(c)

\* every request that changes the provider's state
NextMutate ==
    \E c \in SeqCallers :
        \/ More /\ StartCreateVolume(c)
        \/ More /\ StartDeleteVolume(c)
        \/ More /\ StartControllerPublishVolume(c)
        \/ More /\ StartControllerUnpublishVolume(c)
        \/ More /\ StartControllerExpandVolume(c)
        \/ More /\ StartCreateSnapshot(c)
        \/ More /\ StartDeleteSnapshot(c)
        \/ CreateVolume(c) \/ DeleteVolume(c) \/ ControllerPublishVolume(c)
        \/ ControllerUnpublishVolume(c) \/ ControllerExpandVolume(c)
        \/ CreateSnapshot(c) \/ DeleteSnapshot(c)
        \/ Return(c)

SpecProvision == Init /\ [][NextProvision]_vars
SpecProvisionSeq == Init /\ [][NextProvisionSeq]_vars
SpecAttach == Init /\ [][NextAttach]_vars
SpecExpand == Init /\ [][NextExpand]_vars
SpecValidate == Init /\ [][NextValidate]_vars
SpecSnapshot == Init /\ [][NextSnapshot]_vars
SpecMutate == Init /\ [][NextMutate]_vars

(***************************************************************************)
(* The node's requests. Each answers in one step but NodeStageVolume,      *)
(* which checks the staging path in one step and formats and mounts in a   *)
(* second.                                                                 *)
(***************************************************************************)
\* the end of a request: the host it leaves, its gRPC code, its host calls
Ans(h, code, ops) ==
    [host |-> h, code |-> code, ops |-> ops, pc |-> "done", devicePath |-> <<>>,
     sourcePath |-> <<>>, mountOptions |-> <<>>]

\* a filesystem stage that does not look whether the staging path is mounted
StageFilesystemUnchecked(h, r, devicePath) ==
    IF r.cap.type # "mount"
    THEN Ans(h, "InvalidArgument", <<"GetDevicePath">>)
    ELSE [Ans(h, "pending", <<"GetDevicePath">>) EXCEPT
             !.pc = "format", !.devicePath = devicePath]

\* NodeStageVolume in filesystem mode, up to the check of the staging path
StageFilesystem(h, r, devicePath) ==
    LET shared == IsSharedMounted(h.mounts, FALSE, r.stagingTargetPath, devicePath)
        blk == IsBlockDevice(h, r.stagingTargetPath)
    IN  IF shared.err # Nil
        THEN Ans(h, "Internal", <<"GetDevicePath", "IsSharedMounted">>)
        ELSE IF shared.mounted
        THEN Ans(h, IF blk.err # Nil THEN "Internal" ELSE IF blk.block THEN "Unknown" ELSE "OK",
                 <<"GetDevicePath", "IsSharedMounted", "IsBlockDevice">>)
        ELSE IF r.cap.type # "mount"
        THEN Ans(h, "InvalidArgument", <<"GetDevicePath", "IsSharedMounted">>)
        ELSE [Ans(h, "pending", <<"GetDevicePath", "IsSharedMounted">>) EXCEPT
                 !.pc = "format", !.devicePath = devicePath]

\* a raw-block stage that goes on as a filesystem one
StageBlockAsFilesystem(h, r, devicePath) == StageFilesystem(h, r, devicePath)

\* NodeStageVolume for a raw-block capability: nothing to format
StageBlock(h, r, devicePath) == Ans(h, "OK", <<"GetDevicePath">>)

\* NodeStageVolume up to the check of the staging path
NodeStageVolumeCheck(h, r) ==
    LET d == getExoscaleID(r.volumeId)
        dev == GetDevicePath(h, d.id)
    IN  IF r.stagingTargetPath = "" THEN Ans(h, "InvalidArgument", <<>>)
        ELSE IF r.cap.isNil THEN Ans(h, "InvalidArgument", <<>>)
        ELSE IF validateVolumeCapability(r.cap) # Nil THEN Ans(h, "InvalidArgument", <<>>)
        ELSE IF d.err # Nil THEN Ans(h, "Unknown", <<>>)
        ELSE IF dev.err = "ErrNotExist" THEN Ans(h, "NotFound", <<"GetDevicePath">>)
        ELSE IF dev.err # Nil THEN Ans(h, "Internal", <<"GetDevicePath">>)
        ELSE IF r.cap.type = "block" THEN StageBlock(h, r, dev.path)
        ELSE StageFilesystem(h, r, dev.path)

\* NodeStageVolume from FormatAndMount on
NodeStageVolumeFormat(h, r) ==
    LET fm == FormatAndMount(h, r.stagingTargetPath, r.devicePath, r.fsType, r.mountFlags) IN
    Ans(fm.host, IF fm.err # Nil THEN "Internal" ELSE "OK", Append(r.ops, "FormatAndMount"))

\* an unstage that looks at the staging path before it looks for the device
NodeUnstageVolumePathFirst(h, r) ==
    LET d == getExoscaleID(r.volumeId)
        dev == GetDevicePath(h, d.id)
        shared == IsSharedMounted(h.mounts, FALSE, r.stagingTargetPath, <<>>)
        un == Unmount(h, r.stagingTargetPath)
    IN  IF d.err # Nil THEN Ans(h, "Unknown", <<>>)
        ELSE IF r.stagingTargetPath = "" THEN Ans(h, "InvalidArgument", <<>>)
        ELSE IF h.nodes[r.stagingTargetPath] = "none" THEN Ans(h, "NotFound", <<"Stat">>)
        ELSE IF dev.err = "ErrNotExist" THEN Ans(h, "OK", <<"Stat", "GetDevicePath">>)
        ELSE IF dev.err # Nil THEN Ans(h, "Internal", <<"Stat", "GetDevicePath">>)
        ELSE IF shared.mounted
        THEN Ans(un.host, IF un.err # Nil THEN "Internal" ELSE "OK",
                 <<"Stat", "GetDevicePath", "IsSharedMounted", "Unmount">>)
        ELSE Ans(h, IF shared.err # Nil THEN "Internal" ELSE "OK",
                 <<"Stat", "GetDevicePath", "IsSharedMounted">>)

NodeUnstageVolume(h, r) ==
    LET d == getExoscaleID(r.volumeId)
        dev == GetDevicePath(h, d.id)
        shared == IsSharedMounted(h.mounts, FALSE, r.stagingTargetPath, <<>>)
        un == Unmount(h, r.stagingTargetPath)
    IN  IF d.err # Nil THEN Ans(h, "Unknown", <<>>)
        ELSE IF r.stagingTargetPath = "" THEN Ans(h, "InvalidArgument", <<>>)
        ELSE IF dev.err = "ErrNotExist" THEN Ans(h, "OK", <<"GetDevicePath">>)
        ELSE IF dev.err # Nil THEN Ans(h, "Internal", <<"GetDevicePath">>)
        ELSE IF h.nodes[r.stagingTargetPath] = "none"
        THEN Ans(h, "NotFound", <<"GetDevicePath", "Stat">>)
        ELSE IF shared.err # Nil
        THEN Ans(h, "Internal", <<"GetDevicePath", "Stat", "IsSharedMounted">>)
        ELSE IF shared.mounted
        THEN Ans(un.host, IF un.err # Nil THEN "Internal" ELSE "OK",
                 <<"GetDevicePath", "Stat", "IsSharedMounted", "Unmount">>)
        ELSE Ans(h, "OK", <<"GetDevicePath", "Stat", "IsSharedMounted">>)

\* a reading of the mount options that sees no mount as read-only
isReadOnlyNever(mountOptions) == FALSE

\* the read-only state the mount table shows: the first of rw and ro among
\* the mount options
RECURSIVE isReadOnly(_)
isReadOnly(mountOptions) ==
    IF mountOptions = <<>> \/ Head(mountOptions) = "rw" THEN FALSE
    ELSE IF Head(mountOptions) = "ro" THEN TRUE
    ELSE isReadOnly(Tail(mountOptions))

\* a check of the published target that takes any type and read-only state
AlreadyMountedAsAsked(h, r, devicePath) == "OK"

\* NodePublishVolume on a target that is mounted already
AlreadyMounted(h, r, devicePath) ==
    LET blk == IsBlockDevice(h, r.targetPath)
        info == GetMountInfo(h.mounts, FALSE, r.targetPath).mountInfo
        ro == ~info.isNil /\ isReadOnly(info.info.mountOptions)
    IN  IF blk.err # Nil THEN "Internal"
        ELSE IF (blk.block /\ r.cap.type = "mount") \/ (~blk.block /\ r.cap.type = "block")
        THEN "AlreadyExists"
        ELSE IF r.cap.type = "block"
        THEN IF h.dev[devicePath].ro = r.readonly THEN "OK" ELSE "AlreadyExists"
        ELSE IF ro # r.readonly THEN "AlreadyExists"
        ELSE "OK"

\* options of the bind mount that leave out bind
PublishOptionsFlagsOnly(r) ==
    (IF r.cap.type = "block" THEN <<>> ELSE r.mountFlags)
    \o (IF r.readonly THEN <<"ro">> ELSE <<>>)

\* the options NodePublishVolume mounts with: the flags of a mount
\* capability, then bind, then ro for a read-only publication
PublishOptions(r) ==
    (IF r.cap.type = "block" THEN <<>> ELSE r.mountFlags) \o <<"bind">>
    \o (IF r.readonly THEN <<"ro">> ELSE <<>>)

NodePublishVolume(h, r) ==
    LET d == getExoscaleID(r.volumeId)
        dev == GetDevicePath(h, d.id)
        shared == IsSharedMounted(h.mounts, FALSE, r.targetPath, dev.path)
        block == r.cap.type = "block"
        setRO == block /\ r.readonly
        flagged == IF setRO THEN [h EXCEPT !.dev[dev.path].ro = TRUE] ELSE h
        mountOptions == PublishOptions(r)
        sourcePath == IF block THEN dev.path ELSE r.stagingTargetPath
        point == createMountPoint(flagged, r.targetPath, block)
        mnt == MountToTarget(point.host, block, dev.path, sourcePath, r.targetPath,
                             mountOptions)
        first == <<"GetDevicePath", "IsSharedMounted">>
        set == IF setRO THEN <<"BLKROSET">> ELSE <<>>
    IN  IF d.err # Nil THEN Ans(h, "Unknown", <<>>)
        ELSE IF r.targetPath = "" THEN Ans(h, "InvalidArgument", <<>>)
        ELSE IF r.cap.isNil THEN Ans(h, "InvalidArgument", <<>>)
        ELSE IF validateVolumeCapability(r.cap) # Nil THEN Ans(h, "InvalidArgument", <<>>)
        ELSE IF r.stagingTargetPath = "" THEN Ans(h, "FailedPrecondition", <<>>)
        ELSE IF dev.err # Nil THEN Ans(h, "NotFound", <<"GetDevicePath">>)
        ELSE IF shared.err # Nil THEN Ans(h, "Internal", first)
        ELSE IF shared.mounted
        THEN Ans(h, AlreadyMounted(h, r, dev.path), Append(first, "IsBlockDevice"))
        ELSE IF point.err # Nil
        THEN Ans(flagged, "Internal", first \o set \o <<"createMountPoint">>)
        ELSE [Ans(mnt.host, IF mnt.err # Nil THEN "Internal" ELSE "OK",
                  first \o set \o <<"createMountPoint", "MountToTarget">>)
                 EXCEPT !.mountOptions = mountOptions, !.sourcePath = sourcePath]

\* an unpublication that answers success and leaves the target as it is
NodeUnpublishVolumeKeeps(h, r) == Ans(h, "OK", <<"Unmount">>)

NodeUnpublishVolume(h, r) ==
    LET un == Unmount(h, r.targetPath) IN
    IF r.targetPath = "" THEN Ans(h, "InvalidArgument", <<>>)
    ELSE Ans(un.host, IF un.err # Nil THEN "Internal" ELSE "OK", <<"Unmount">>)

\* a resize that runs resize2fs on every file system
ResizeAny(h, targetPath) == [run |-> "resize2fs", code |-> "OK"]

\* diskUtils.Resize: the utility run for the file system the mount table
\* shows on the path; the table showing none is a nil dereference
Resize(h, targetPath) ==
    LET info == GetMountInfo(h.mounts, FALSE, targetPath).mountInfo IN
    IF info.isNil THEN [run |-> "", code |-> "Panic"]
    ELSE IF info.info.fsType \in {"ext3", "ext4"} THEN [run |-> "resize2fs", code |-> "OK"]
    ELSE IF info.info.fsType = "xfs" THEN [run |-> "xfs_growfs", code |-> "OK"]
    ELSE IF info.info.fsType = "btrfs" THEN [run |-> "btrfs", code |-> "OK"]
    ELSE [run |-> "", code |-> "Internal"]

\* the request's volume path is its target path
NodeExpandVolume(h, r) ==
    LET d == getExoscaleID(r.volumeId)
        dev == GetDevicePath(h, d.id)
        blk == IsBlockDevice(h, r.targetPath)
        isBlock == blk.block \/ (~r.cap.isNil /\ r.cap.type = "block")
        rs == Resize(h, r.targetPath)
        first == <<"GetDevicePath", "IsBlockDevice">>
    IN  IF d.err # Nil THEN Ans(h, "Unknown", <<>>)
        ELSE IF r.targetPath = "" THEN Ans(h, "InvalidArgument", <<>>)
        ELSE IF dev.err = "ErrNotExist" THEN Ans(h, "NotFound", <<"GetDevicePath">>)
        ELSE IF dev.err # Nil THEN Ans(h, "Internal", <<"GetDevicePath">>)
        ELSE IF blk.err # Nil THEN Ans(h, "Internal", first)
        ELSE IF ~r.cap.isNil /\ validateVolumeCapability(r.cap) # Nil
        THEN Ans(h, "InvalidArgument", first)
        ELSE IF isBlock THEN Ans(h, "OK", first)
        ELSE Ans(h, rs.code, first \o <<"Resize">> \o (IF rs.run = "" THEN <<>> ELSE <<rs.run>>))

(***************************************************************************)
(* The hosts a node request finds, and the requests the orchestrator       *)
(* sends.                                                                  *)
(***************************************************************************)
RW == <<"rw", "relatime">>
RO == <<"ro", "relatime">>
DevStates == {NoDevice, CharDevice, Device("", FALSE), Device("ext4", FALSE),
              Device("ext4", TRUE), Device("ext3", FALSE), Device("xfs", FALSE),
              Device("btrfs", FALSE), Device("ntfs", FALSE)}
\* the second volume is attached and formatted
OtherDev == Device("ext4", FALSE)
\* what the staging path can hold: nothing, the other volume, this volume,
\* this volume on a mount that is not shared, the mount of this volume left
\* behind by a device that was detached
StagingTables(d) ==
    {<<>>, <<Mount(Staging, DevB, <<TagSharedPeer>>, OtherDev.fs, RW, FALSE)>>}
    \cup (IF d.fs = "" THEN {}
          ELSE {<<Mount(Staging, DevA, <<TagSharedPeer>>, d.fs, RW, FALSE)>>,
                <<Mount(Staging, DevA, <<TagMaster>>, d.fs, RW, FALSE)>>})
    \cup (IF d.state # "absent" THEN {}
          ELSE {<<Mount(Staging, DevA, <<TagSharedPeer>>, defaultFSType, RW, FALSE)>>})
\* what the target path can hold: nothing, the other volume, the device
\* itself, this volume read-write or read-only, this volume not shared
TargetTables(d) ==
    {<<>>, <<Mount(Target, DevB, <<TagSharedPeer>>, OtherDev.fs, RW, FALSE)>>}
    \cup (IF d.state # "device" THEN {}
          ELSE {<<Mount(Target, DevA, <<TagSharedPeer>>, "devtmpfs", RW, TRUE)>>})
    \cup (IF d.fs = "" THEN {}
          ELSE {<<Mount(Target, DevA, <<TagSharedPeer>>, d.fs, RW, FALSE)>>,
                <<Mount(Target, DevA, <<TagSharedPeer>>, d.fs, RO, FALSE)>>,
                <<Mount(Target, DevA, <<TagMaster>>, d.fs, RW, FALSE)>>})
\* the kinds of path a mount table allows
NodesUnder(table) ==
    IF table = <<>> THEN {"none", "dir", "file"}
    ELSE IF table[1].block THEN {"file"} ELSE {"dir"}

Host(d, st, sn, tt, tn, budget) ==
    [HostIdle EXCEPT !.dev = [p \in DevPaths |-> IF p = DevA THEN d ELSE OtherDev],
                     !.nodes = [p \in Paths |-> IF p = Staging THEN sn ELSE tn],
                     !.mounts = st \o tt, !.calls = budget]
DrawnHosts ==
    {Host(d, st, sn, tt, tn, MaxNodeCalls) :
        d \in DevStates, st \in UNION {StagingTables(e) : e \in DevStates},
        sn \in {"none", "dir"}, tt \in UNION {TargetTables(e) : e \in DevStates},
        tn \in {"none", "dir", "file"}}
\* the drawn hosts whose paths and mounts fit the device
Hosts ==
    {h \in DrawnHosts :
        LET st == MountsOn(h, Staging)
            tt == MountsOn(h, Target)
        IN  /\ st \in StagingTables(h.dev[DevA]) /\ h.nodes[Staging] \in NodesUnder(st)
            /\ tt \in TargetTables(h.dev[DevA]) /\ h.nodes[Target] \in NodesUnder(tt)}
\* a host on which the device is attached, blank or formatted, and the
\* staging directory made
CleanHosts(budget) ==
    {Host(d, <<>>, "dir", <<>>, tn, budget) :
        d \in {Device("", FALSE), Device("ext4", FALSE)}, tn \in {"none"}}

\* the volume whose device is DevA, and an identifier that does not decode
NodeVolumeIds == {exoscaleID(Zone1, UuidOf("a")), UuidOf("a")}
StagingPaths == {"", Staging}
TargetPaths == {"", Target}
FsTypes == {"", "xfs"}
MountFlagSets == {<<>>, <<"noatime">>, <<"ro">>}

InitNode(hosts) ==
    /\ codec = CodecIdle /\ cap = CapIdle /\ pager = PagerIdle /\ probe = ProbeIdle
    /\ vols = [id \in VolIDs |-> NoVol]
    /\ snaps = [id \in SnapIDs |-> NoSnap]
    /\ call = [c \in Callers |-> Idle]
    /\ ncalls = 0
    /\ hist = HistIdle
    /\ host \in hosts
    /\ nreq = [c \in Callers |-> NreqIdle]

NodeFree(c) == nreq[c].pc = "idle"
NodeAnswering == \E c \in Callers : nreq[c].pc = "done"
NodeCanStart(c) == NodeFree(c) /\ ~NodeAnswering /\ host.calls > 0
\* the arguments of a request
Args(r) == <<r.op, r.volumeId, r.stagingTargetPath, r.targetPath, r.cap, r.fsType,
             r.readonly, r.mountFlags>>
\* the state of the host a request can change
State(h) == <<h.dev, h.nodes, h.mounts, h.formats>>
NodeBegin(c, op) ==
    [NreqIdle EXCEPT !.op = op, !.was = host,
                     !.after = host.raced # <<>> /\ \A o \in Callers : NodeFree(o)]

\* the life of a volume on a node in filesystem mode, and the last request
\* once more
Lifecycle == <<"NodeStageVolume", "NodePublishVolume", "NodeUnpublishVolume",
               "NodeUnstageVolume", "NodeUnpublishVolume">>
\* the request is the one the life of the volume has next
Follows(t, r) ==
    LET fs == ~r.cap.isNil /\ r.cap.type = "mount" IN
    /\ t.at < Len(Lifecycle) /\ r.op = Lifecycle[t.at + 1]
    /\ r.op \in {"NodeStageVolume", "NodePublishVolume"} => fs /\ r.stagingTargetPath = Staging
    /\ r.op = "NodeUnstageVolume" => r.stagingTargetPath = Staging
    /\ r.op \in {"NodePublishVolume", "NodeUnpublishVolume"} => r.targetPath = Target
\* how far the requests answered have followed the life of the volume, every
\* one with success: a request that fails or is not the next one ends it
TripAfter(t, r, a) ==
    IF t.at < 0 \/ a.pc # "done" THEN t
    ELSE IF a.code = "OK" /\ Follows(t, r) THEN [t EXCEPT !.at = @ + 1]
    ELSE HostIdle.trip

\* a handler's step: the host it leaves and the request it leaves (a
\* behaviour that was followed along the life of a volume starts no request
\* after the one that leaves it); the
\* host remembers the last request answered when it was a NodeStageVolume
\* that succeeded, and the arguments of two NodeStageVolume requests that
\* were both between the check and the mount
NodeStep(c, r, a, started) ==
    LET racing == a.pc = "format"
                  /\ \E o \in Callers \ {c} : nreq[o].pc = "format" /\ Args(nreq[o]) = Args(r)
    IN
    /\ host' = [a.host EXCEPT
                   !.calls = IF TripAfter(host.trip, r, a).at < host.trip.at THEN 0
                             ELSE IF started THEN @ - 1 ELSE @,
                   !.trip = TripAfter(@, r, a),
                   !.last = IF a.pc # "done" THEN @
                            ELSE IF r.op = "NodeStageVolume" /\ a.code = "OK" THEN Args(r)
                            ELSE <<>>,
                   !.raced = IF racing THEN Args(r)
                             ELSE IF r.op = "NodeUnstageVolume" THEN <<>> ELSE @]
    /\ nreq' = [nreq EXCEPT ![c] = [r EXCEPT !.pc = a.pc, !.code = a.code, !.ops = a.ops,
                                              !.devicePath = a.devicePath,
                                              !.sourcePath = a.sourcePath,
                                              !.mountOptions = a.mountOptions]]
    /\ UNCHANGED <<codec, cap, vols, snaps, call, ncalls, hist, pager, probe>>

StageCheck(c) ==
    /\ NodeCanStart(c)
    /\ \E id \in NodeVolumeIds, s \in StagingPaths, k \in Capabilities, f \in FsTypes,
          fl \in MountFlagSets :
          LET r == [NodeBegin(c, "NodeStageVolume") EXCEPT
                       !.volumeId = id, !.stagingTargetPath = s, !.cap = k, !.fsType = f,
                       !.mountFlags = fl]
          IN  NodeStep(c, r, NodeStageVolumeCheck(host, r), TRUE)

StageFormat(c) ==
    /\ ~NodeAnswering
    /\ nreq[c].op = "NodeStageVolume" /\ nreq[c].pc = "format"
    /\ NodeStep(c, nreq[c], NodeStageVolumeFormat(host, nreq[c]), FALSE)

Unstage(c) ==
    /\ NodeCanStart(c)
    /\ \E id \in NodeVolumeIds, s \in StagingPaths :
          LET r == [NodeBegin(c, "NodeUnstageVolume") EXCEPT
                       !.volumeId = id, !.stagingTargetPath = s]
          IN  NodeStep(c, r, NodeUnstageVolume(host, r), TRUE)

Publish(c) ==
    /\ NodeCanStart(c)
    /\ \E id \in NodeVolumeIds, s \in StagingPaths, t \in TargetPaths, k \in Capabilities,
          ro \in BOOLEAN, fl \in MountFlagSets :
          LET r == [NodeBegin(c, "NodePublishVolume") EXCEPT
                       !.volumeId = id, !.stagingTargetPath = s, !.targetPath = t,
                       !.cap = k, !.readonly = ro, !.mountFlags = fl]
          IN  NodeStep(c, r, NodePublishVolume(host, r), TRUE)

Unpublish(c) ==
    /\ NodeCanStart(c)
    /\ \E t \in TargetPaths :
          LET r == [NodeBegin(c, "NodeUnpublishVolume") EXCEPT !.targetPath = t]
          IN  NodeStep(c, r, NodeUnpublishVolume(host, r), TRUE)

Expand(c) ==
    /\ NodeCanStart(c)
    /\ \E id \in NodeVolumeIds, t \in TargetPaths \cup {Staging}, k \in Capabilities :
          LET r == [NodeBegin(c, "NodeExpandVolume") EXCEPT
                       !.volumeId = id, !.targetPath = t, !.cap = k]
          IN  NodeStep(c, r, NodeExpandVolume(host, r), TRUE)

NodeReturn(c) ==
    /\ nreq[c].pc = "done"
    /\ nreq' = [nreq EXCEPT ![c] = NreqIdle]
    /\ UNCHANGED <<codec, cap, vols, snaps, call, ncalls, hist, pager, probe, host>>

\* one request at a time
NextNode ==
    \/ StageCheck("c1") \/ StageFormat("c1") \/ Unstage("c1") \/ Publish("c1")
    \/ Unpublish("c1") \/ Expand("c1") \/ NodeReturn("c1")
\* two requests at a time, for staging and unstaging
NextNodeRace ==
    \E c \in Callers : StageCheck(c) \/ StageFormat(c) \/ Unstage(c) \/ NodeReturn(c)

\* one request on a drawn host
SpecNode == InitNode(Hosts) /\ [][NextNode]_vars
\* requests one after the other on a clean host
SpecNodeSeq == InitNode(CleanHosts(MaxSeqCalls)) /\ [][NextNode]_vars
\* requests two at a time on a clean host
SpecNodeRace == InitNode(CleanHosts(MaxNodeRaceCalls)) /\ [][NextNodeRace]_vars
\* requests one after the other on a clean host, followed for as long as
\* they are the life of the volume
TripHosts ==
    {[h EXCEPT !.trip = [at |-> 0, first |-> h.mounts]] : h \in CleanHosts(MaxTripCalls)}
SpecNodeTrip == InitNode(TripHosts) /\ [][NextNode]_vars

(***************************************************************************)
(* IsSharedMounted applied to drawn mount tables.                          *)
(***************************************************************************)
ProbeLines ==
    {Mount(p, s, o, defaultFSType, <<"rw">>, FALSE) :
        p \in Paths, s \in DevPaths,
        o \in {<<>>, <<TagSharedPeer>>, <<TagMaster>>, <<TagMaster, TagShared>>, <<TagSharedLike>>}}
ProbeTables == UNION {[1..k -> ProbeLines] : k \in 0..MaxMounts}

InitProbe ==
    /\ codec = CodecIdle /\ cap = CapIdle /\ pager = PagerIdle
    /\ vols = [id \in VolIDs |-> NoVol]
    /\ snaps = [id \in SnapIDs |-> NoSnap]
    /\ call = [c \in Callers |-> Idle]
    /\ ncalls = 0
    /\ hist = HistIdle
    /\ host = HostIdle
    /\ nreq = [c \in Callers |-> NreqIdle]
    /\ probe \in {[phase |-> "in", table |-> t, readErr |-> e, targetPath |-> p,
                    devicePath |-> d, res |-> NoAnswer] :
                      t \in ProbeTables, e \in BOOLEAN, p \in Paths \cup {""},
                      d \in DevPaths \cup {<<>>}}

ProbeIsSharedMounted ==
    /\ probe.phase = "in"
    /\ probe' = [probe EXCEPT
                    !.phase = "done",
                    !.res = IsSharedMounted(probe.table, probe.readErr, probe.targetPath,
                                            probe.devicePath)]
    /\ UNCHANGED <<codec, cap, vols, snaps, call, ncalls, hist, pager, host, nreq>>

NextProbe == ProbeIsSharedMounted
SpecMountInfo == InitProbe /\ [][NextProbe]_vars

(***************************************************************************)
(* The codec applied to drawn inputs: a (zone, UUID) pair is encoded, by   *)
(* exoscaleID or by NodeGetInfo, and decoded again; a raw identifier is    *)
(* decoded.                                                                *)
(***************************************************************************)

CodecInputs ==
    {[phase |-> "pair", zone |-> z, uuid |-> u, text |-> <<>>, dec |-> NoDec] :
        z \in StrUpTo(MaxZoneLen), u \in ValidUUIDs}
    \cup
    {[phase |-> "text", zone |-> <<>>, uuid |-> <<>>, text |-> t, dec |-> NoDec] :
        t \in StrUpTo(MaxStrLen)}

CodecEncode ==
    /\ codec.phase = "pair"
    /\ codec' = [codec EXCEPT !.phase = "encoded",
                              !.text = exoscaleID(codec.zone, codec.uuid)]
    /\ UNCHANGED <<cap, ctlVars>>

CodecNodeGetInfo ==
    /\ codec.phase = "pair"
    /\ codec' = [codec EXCEPT !.phase = "nodeid",
                              !.text = NodeGetInfo(codec.zone, codec.uuid).NodeId]
    /\ UNCHANGED <<cap, ctlVars>>

\* the decoding every controller operation starts with
CodecDecode ==
    /\ codec.phase \in {"encoded", "nodeid", "text"}
    /\ codec' = [codec EXCEPT !.phase = IF codec.phase = "text" THEN "parsed" ELSE "decoded",
                              !.dec = getExoscaleID(codec.text)]
    /\ UNCHANGED <<cap, ctlVars>>

NextCodec == CodecEncode \/ CodecNodeGetInfo \/ CodecDecode

(***************************************************************************)
(* The negotiator applied to drawn capacity ranges.                        *)
(***************************************************************************)

CapBytes == {-1, 0, 1,
             MinimalVolumeSizeBytes - 1, MinimalVolumeSizeBytes,
             MinimalVolumeSizeBytes + 1, MinimalVolumeSizeBytes + GiB,
             MaximumVolumeSizeBytes - 1, MaximumVolumeSizeBytes,
             MaximumVolumeSizeBytes + 1}

CapRanges == {NilRange} \cup {CapRange(r, l) : r \in CapBytes, l \in CapBytes}

CapNegotiate ==
    /\ cap.phase = "in"
    /\ cap' = [cap EXCEPT !.phase = "done", !.res = getNewVolumeSize(cap.range)]
    /\ UNCHANGED <<codec, ctlVars>>

NextCap == CapNegotiate

CtlIdle ==
    /\ vols = [id \in VolIDs |-> NoVol]
    /\ snaps = [id \in SnapIDs |-> NoSnap]
    /\ call = [c \in Callers |-> Idle]
    /\ ncalls = 0
    /\ hist = HistIdle
    /\ pager = PagerIdle
    /\ NodeIdle

InitCodec == codec \in CodecInputs /\ cap = CapIdle /\ CtlIdle
InitCap ==
    /\ codec = CodecIdle /\ CtlIdle
    /\ cap \in {[phase |-> "in", range |-> r, res |-> NoSize] : r \in CapRanges}

SpecCodec == InitCodec /\ [][NextCodec]_vars
SpecCap == InitCap /\ [][NextCap]_vars

(***************************************************************************)
(* Properties of the capacity negotiator (SpecCap).                        *)
(***************************************************************************)
CapDone == cap.phase = "done"
CapReq == cap.range.RequiredBytes
CapLim == cap.range.LimitBytes
CapReqSet == ~cap.range.isNil /\ CapReq > 0
CapLimSet == ~cap.range.isNil /\ CapLim > 0
CapOk(n) == [size |-> n, err |-> Nil]
CapFail(e) == [size |-> 0, err |-> e]

\* the ten rules as an ordered list of <<condition, outcome>>; rule 8 is
\* parameterised by its condition
TenRules(rule8) ==
    << [when |-> ~CapReqSet /\ ~CapLimSet, out |-> CapOk(MinimalVolumeSizeBytes)],
       [when |-> CapReqSet /\ CapLimSet /\ CapLim < CapReq,
        out |-> CapFail(errLimitLessThanRequiredBytes)],
       [when |-> CapReqSet /\ ~CapLimSet /\ CapReq < MinimalVolumeSizeBytes,
        out |-> CapFail(errRequiredBytesLessThanMinimun)],
       [when |-> CapLimSet /\ CapLim < MinimalVolumeSizeBytes,
        out |-> CapFail(errLimitLessThanMinimum)],
       [when |-> CapReqSet /\ CapReq > MaximumVolumeSizeBytes,
        out |-> CapFail(errRequiredBytesGreaterThanMaximun)],
       [when |-> ~CapReqSet /\ CapLimSet /\ CapLim > MaximumVolumeSizeBytes,
        out |-> CapFail(errLimitGreaterThanMaximum)],
       [when |-> CapReqSet /\ CapLimSet /\ CapReq = CapLim, out |-> CapOk(CapReq)],
       [when |-> rule8, out |-> CapOk(CapReq)],
       [when |-> ~CapReqSet /\ CapLimSet, out |-> CapOk(CapLim)],
       [when |-> TRUE, out |-> CapOk(MinimalVolumeSizeBytes)] >>

FirstMatch(rules) ==
    rules[CHOOSE i \in 1..Len(rules) :
            rules[i].when /\ \A j \in 1..(i - 1) : ~rules[j].when].out

C8_RequiredReturned ==
    CapDone =>
        /\ ( /\ CapReqSet /\ CapLimSet
             /\ CapReq >= MinimalVolumeSizeBytes /\ CapReq <= MaximumVolumeSizeBytes
             /\ CapLim >= CapReq )
           => cap.res = CapOk(CapReq)
        /\ ( /\ CapReqSet /\ ~CapLimSet /\ ~cap.range.isNil
             /\ CapReq >= MinimalVolumeSizeBytes /\ CapReq <= MaximumVolumeSizeBytes )
           => cap.res = CapOk(CapReq)
        /\ ( /\ ~CapReqSet /\ CapLimSet /\ ~cap.range.isNil
             /\ CapLim >= MinimalVolumeSizeBytes /\ CapLim <= MaximumVolumeSizeBytes )
           => cap.res = CapOk(CapLim)

\* required within bounds with a strictly greater limit was negotiated
C8_Witness ==
    /\ CapDone /\ CapReqSet /\ CapLimSet
    /\ CapReq >= MinimalVolumeSizeBytes /\ CapReq <= MaximumVolumeSizeBytes
    /\ CapLim > CapReq
    /\ cap.res = CapOk(CapReq)

(***************************************************************************)
(* Properties of the identifier codec (SpecCodec).                         *)
(***************************************************************************)
Slashes(s) == {i \in 1..Len(s) : s[i] = "/"}
HasSlash(s) == Slashes(s) # {}

\* C9: an encoded (zone, UUID) pair whose zone holds no "/" decodes to
\* exactly that pair with no error, also when NodeGetInfo encoded it.
C9_RoundTrip ==
    (codec.phase = "decoded" /\ ~HasSlash(codec.zone)) =>
        codec.dec = [zone |-> codec.zone, id |-> codec.uuid, err |-> Nil]

\* a node identifier with a non-empty zone was encoded by NodeGetInfo and decoded
C9_Witness ==
    /\ codec.phase = "decoded" /\ codec.text = NodeGetInfo(codec.zone, codec.uuid).NodeId
    /\ Len(codec.zone) > 0 /\ ~HasSlash(codec.zone)
    /\ codec.dec.err = Nil /\ codec.dec.zone = codec.zone

\* the part of s after its only separator
AfterSlash(s) ==
    LET k == CHOOSE i \in Slashes(s) : TRUE IN SubSeq(s, k + 1, Len(s))

\* C10: decoding fails, with an empty zone and an empty UUID, on every
\* identifier without exactly one "/" and on every identifier whose second
\* segment is no valid UUID.
C10_DecodeFails ==
    (/\ codec.phase \in {"parsed", "decoded"}
     /\ \/ Cardinality(Slashes(codec.text)) # 1
        \/ ~IsUUID(AfterSlash(codec.text)))
    => (codec.dec.err # Nil /\ codec.dec.zone = <<>> /\ codec.dec.id = <<>>)

\* an identifier with two separators and a well-formed UUID in second place
\* was decoded and refused
C10_Witness ==
    /\ codec.phase = "parsed"
    /\ Cardinality(Slashes(codec.text)) = 2
    /\ IsUUID(Split(codec.text)[2])
    /\ codec.dec.err # Nil

(***************************************************************************)
(* Claims about provisioning, attachment and expansion.                    *)
(***************************************************************************)
Finished(c, op) == call[c].op = op /\ call[c].pc = "done"

\* C1: with requests served one after the other, from the moment a zone
\* holds no volume of a name and until the volume is deleted, once a
\* CreateVolume of the name has succeeded the provider has made exactly one
\* volume for it, the zone holds exactly one volume of the name, and every
\* successful request answered the encoded identifier of that volume.
C1_CreateIdempotent ==
    \A key \in Keys :
        hist.create[key].oks > 0 =>
            /\ hist.create[key].created = 1
            /\ Cardinality(VolsOf(key)) = 1
            /\ hist.create[key].returned = {exoscaleID(key[1], id) : id \in VolsOf(key)}

\* a second successful CreateVolume of a name, answered from the listing
C1_Witness ==
    \E c \in Callers :
        /\ Finished(c, "CreateVolume")
        /\ call[c].res.code = "OK"
        /\ "create" \notin call[c].issued
        /\ hist.create[Key(call[c].zone, call[c].name)].oks >= 2
        /\ hist.create[Key(call[c].zone, call[c].name)].created = 1

\* C2: with two CreateVolume requests in flight, a zone never holds more
\* than one volume of a name and the requests of a name never answer two
\* different identifiers.
C2_ConcurrentCreateSafe ==
    \A key \in Keys :
        /\ Cardinality(VolsOf(key)) <= 1
        /\ Cardinality(hist.create[key].returned) <= 1

\* C3: a DeleteVolume or DeleteSnapshot request whose delete call answers
\* NotFound ends with success, waits for nothing and leaves the provider's
\* volumes and snapshots as they were; any other error of the delete call or
\* of the wait is the answer of the request; without an error the request
\* has waited and succeeds.
C3_AbsentDeleteSucceeds ==
    [][\A c \in Callers :
        (DeleteVolume(c) \/ DeleteSnapshot(c)) /\ call'[c].pc = "done" =>
            LET r == call'[c] IN
            /\ r.err = "ErrNotFound" =>
                  r.res = Ok /\ "wait" \notin r.issued /\ vols' = vols /\ snaps' = snaps
            /\ r.err \notin {Nil, "ErrNotFound"} => r.res = Fail("Unknown", r.err)
            /\ r.err = Nil => r.res = Ok /\ "wait" \in r.issued]_vars

\* the snapshot was deleted earlier, and deleting it again succeeds
C3_Witness ==
    \E c \in Callers :
        /\ Finished(c, "DeleteSnapshot")
        /\ call[c].issued = {"delete"}
        /\ snaps[call[c].id] = NoSnap
        /\ call[c].err = "ErrNotFound"
        /\ call[c].res = Ok

\* C4: a ControllerUnpublishVolume request whose detach call answers NotFound
\* or "Volume not attached" ends with success and waits for nothing; any
\* other error of the detach call is the answer of the request; hence on a
\* volume that is gone or attached to nothing the request succeeds whenever
\* the provider answers for the volume's state.
C4_DetachedUnpublishSucceeds ==
    \A c \in Callers :
        Finished(c, "ControllerUnpublishVolume") /\ "detach" \in call[c].issued =>
            LET r == call[c]
                done == {"ErrNotFound", "ErrInvalidRequest: Volume not attached"}
            IN
            /\ r.err \in done => r.res = Ok /\ "wait" \notin r.issued
            /\ r.err \notin done \cup {Nil} => r.res = Fail("Unknown", r.err)
            /\ (~r.saw.exists \/ r.saw.instance = NoInstance)
                   /\ r.err \notin {"ErrAPI", "ErrInvalidRequest: other"} => r.res = Ok

\* the volume was attached and detached earlier, and detaching it again succeeds
C4_Witness ==
    \E c \in Callers :
        /\ Finished(c, "ControllerUnpublishVolume")
        /\ call[c].saw.exists /\ call[c].saw.instance = NoInstance
        /\ call[c].err = "ErrInvalidRequest: Volume not attached"
        /\ call[c].issued = {"detach"}
        /\ call[c].res = Ok

\* C5: a ControllerPublishVolume request that fetches the volume and finds
\* it attached to the instance of the node ends with success, has issued no
\* attach, and answers the volume's name, identifier and zone: the context
\* the request that attached the volume answered.
C5_PublishIdempotent ==
    \A c \in Callers :
        LET r == call[c] IN
        /\ r.op = "ControllerPublishVolume"
        /\ r.saw.exists /\ r.saw.instance = r.inst
        => /\ r.pc = "done" /\ r.issued = {}
           /\ r.res.code = "OK"
           /\ r.res.ctx = [name |-> r.saw.name, id |-> r.id, zone |-> r.zone]
           /\ hist.publish[r.id] # NoCtx => r.res.ctx = hist.publish[r.id]

\* the volume was attached by an earlier request, whose context is answered again
C5_Witness ==
    \E c \in Callers :
        /\ Finished(c, "ControllerPublishVolume")
        /\ call[c].issued = {}
        /\ call[c].res.code = "OK"
        /\ call[c].res.ctx # NoCtx
        /\ call[c].res.ctx = hist.publish[call[c].id]

\* the new size the policy resolves is below the size of the volume fetched
Shrinks(r) ==
    /\ r.saw.exists
    /\ getNewVolumeSize(r.range).err = Nil
    /\ getNewVolumeSize(r.range).size < convertGiBToBytes(r.saw.size)

\* C6: a ControllerExpandVolume request whose resolved new size is below the
\* size of the volume ends with InvalidArgument and has issued no resize, and
\* no step of a request makes a volume smaller.
C6_ExpandNeverShrinks ==
    /\ [](\A c \in Callers :
            Finished(c, "ControllerExpandVolume") /\ Shrinks(call[c]) =>
                /\ call[c].res.code = "InvalidArgument"
                /\ "resize" \notin call[c].issued)
    /\ [][\A id \in VolIDs : vols[id].exists /\ vols'[id].exists
            => vols'[id].size >= vols[id].size]_vars

\* the errors getExoscaleID answers
DecodeErrors == {"malformed exoscale id", "invalid UUID"}

\* C11: a request whose identifier does not decode ends with InvalidArgument
\* and has made no call that changes the provider.
C11_DecodeFailureInvalidArgument ==
    \A c \in Callers :
        call[c].pc = "done" /\ call[c].res.err \in DecodeErrors =>
            call[c].res.code = "InvalidArgument" /\ call[c].issued = {}

\* C12: a CreateVolume request that names several zones ends with an error
\* at once, before any listing or creation; one that names no zone works in
\* the controller's own zone and one that names a zone works in that zone;
\* the identifier and the topology answered carry the zone of the request.
C12_OneZoneResolved ==
    \A c \in Callers :
        LET r == call[c] IN
        r.op = "CreateVolume" =>
            /\ Cardinality(r.topo) > 1 =>
                  r.pc = "done" /\ r.res.code # "OK" /\ r.issued = {} /\ r.zone = <<>>
            /\ r.topo = {} => r.zone = HomeZone
            /\ Cardinality(r.topo) = 1 => r.zone \in r.topo
            /\ r.pc = "done" /\ r.res.code = "OK" =>
                  /\ getExoscaleID(r.res.id).zone = r.zone
                  /\ r.res.topology = r.zone
                  /\ vols[getExoscaleID(r.res.id).id].zone = r.zone

\* a request that names two zones is refused, after an earlier request made
\* a volume in the controller's own zone
C12_Witness ==
    \E c \in Callers :
        /\ Finished(c, "CreateVolume")
        /\ Cardinality(call[c].topo) = 2
        /\ call[c].res.code # "OK"
        /\ \E id \in VolIDs : VolIn(HomeZone, id)

\* the answer to a size that is no whole number of GiB
InexactSize == "size cannot be exactly converted to GiB"

\* C13: a CreateVolume request whose required bytes are no multiple of GiB
\* issues no create and, when the listing held no volume of the name, ends
\* with an error; a ControllerExpandVolume request whose resolved size is no
\* multiple of GiB issues no resize and ends with an error; a request that
\* succeeds after a create or resize answers, in bytes, exactly GiB times the
\* size it sent, which is the size that was asked for.
C13_ExactGiB ==
    \A c \in Callers :
        LET r == call[c]
            new == getNewVolumeSize(r.range)
        IN
        /\ r.op = "CreateVolume" /\ ~r.range.isNil /\ r.range.RequiredBytes % GiB # 0 =>
              /\ "create" \notin r.issued /\ r.pc \notin {"create", "wait"}
              /\ r.pc = "done" /\ ~r.saw.exists => r.res.code # "OK"
        /\ r.op = "ControllerExpandVolume" /\ new.err = Nil /\ new.size % GiB # 0 =>
              /\ "resize" \notin r.issued /\ r.pc # "resize"
              /\ r.pc = "done" => r.res.code # "OK"
        /\ r.op = "CreateVolume" /\ r.pc = "done" /\ r.res.code = "OK" /\ "create" \in r.issued =>
              /\ r.res.bytes = r.sizeGiB * GiB
              /\ ~r.range.isNil => r.res.bytes = r.range.RequiredBytes
        /\ r.op = "ControllerExpandVolume" /\ r.pc = "done" /\ r.res.code = "OK" =>
              /\ r.res.bytes = r.sizeGiB * GiB
              /\ r.res.bytes = new.size

\* an expansion to a size that is no multiple of GiB refused, on a volume
\* whose creation answered the bytes asked for
C13_Witness ==
    \E c \in Callers :
        /\ Finished(c, "ControllerExpandVolume")
        /\ call[c].saw.exists
        /\ call[c].res.err = InexactSize
        /\ getNewVolumeSize(call[c].range).size % GiB # 0
        /\ call[c].issued = {}

\* C14: a CreateVolume request whose capacity range the negotiator refuses
\* issues no create and, when it fails after a listing that the provider
\* answered, ends with OutOfRange; a request that succeeds after a create has made a volume
\* of the size the negotiator resolves.
C14_CreateUsesNegotiator ==
    \A c \in Callers :
        LET r == call[c]
            new == getNewVolumeSize(r.range)
        IN
        r.op = "CreateVolume" =>
            /\ new.err # Nil =>
                  /\ "create" \notin r.issued /\ r.pc \notin {"create", "wait"}
                  /\ r.pc = "done" /\ r.res.code # "OK" /\ r.zone # <<>> /\ r.err = Nil
                        => r.res.code = "OutOfRange"
            /\ new.err = Nil /\ r.pc = "done" /\ r.res.code = "OK" /\ "create" \in r.issued
                  /\ ~r.range.isNil => r.res.bytes = new.size

\* C18: a ControllerExpandVolume request that succeeds answers that the node
\* need not expand exactly when it carries a capability of raw block type,
\* and answers the size the negotiator resolves from its range; once the
\* volume is fetched, a capability with an unsupported access mode ends the
\* request with InvalidArgument and a range the negotiator refuses ends it
\* with OutOfRange, neither with a resize issued.
C18_NodeExpansionFlag ==
    \A c \in Callers :
        LET r == call[c]
            new == getNewVolumeSize(r.range)
            block == ~r.cap.isNil /\ r.cap.type = "block"
            unsupported == ~r.cap.isNil /\ r.cap.mode \notin
                               {"SINGLE_NODE_WRITER", "SINGLE_NODE_MULTI_WRITER"}
        IN
        r.op = "ControllerExpandVolume" =>
            /\ r.pc = "done" /\ r.res.code = "OK" =>
                  /\ r.res.nodeExpansion = ~block
                  /\ r.res.bytes = new.size /\ new.err = Nil
                  /\ ~unsupported
            /\ r.saw.exists /\ unsupported =>
                  r.pc = "done" /\ r.res.code = "InvalidArgument" /\ r.issued = {}
            /\ r.saw.exists /\ ~unsupported /\ new.err # Nil =>
                  r.pc = "done" /\ r.res.code = "OutOfRange" /\ r.issued = {}

\* a raw block volume expanded: the node has nothing to do
C18_Witness ==
    \E c \in Callers :
        /\ Finished(c, "ControllerExpandVolume")
        /\ call[c].res.code = "OK"
        /\ call[c].cap.type = "block"
        /\ ~call[c].res.nodeExpansion
        /\ call[c].res.bytes = convertGiBToBytes(MinimalVolumeSizeGiB + 2)

\* C16: a ValidateVolumeCapabilities request that confirms has found the
\* volume, carries only capabilities whose access mode is supported, and
\* confirms the first supported access mode.
C16_ConfirmsOnlySupported ==
    \A c \in Callers :
        Finished(c, "ValidateVolumeCapabilities") /\ call[c].res.code = "OK" =>
            /\ call[c].saw.exists
            /\ \A capability \in call[c].caps :
                  capability.mode \in {"SINGLE_NODE_WRITER", "SINGLE_NODE_MULTI_WRITER"}
            /\ call[c].res.confirmed = "SINGLE_NODE_WRITER"

\* the snapshots of a volume that carry a name
Named(zone, vol, name) == {s \in SnapsOf(zone, vol) : snaps[s].name = name}

\* C17: with requests served one after the other, a volume never has two
\* snapshots of one name; a CreateSnapshot request goes on to create only
\* when the volume has no snapshot of the name, and one that succeeds answers
\* the one snapshot of the volume that has the name, ready and without a
\* size, having created it or, when it was there already, having issued
\* nothing.
C17_SnapshotIdempotent ==
    /\ \A z \in Zones, v \in VolIDs, n \in SnapNames : Cardinality(Named(z, v, n)) <= 1
    /\ \A c \in Callers :
        LET r == call[c] IN
        r.op = "CreateSnapshot" =>
            /\ r.pc = "create" => Named(r.zone, r.id, r.name) = {}
            /\ r.pc = "done" /\ r.res.code = "OK" =>
                  /\ Named(r.zone, r.id, r.name) = {r.snap}
                  /\ r.res.id = exoscaleID(r.zone, r.snap)
                  /\ r.res.source = exoscaleID(r.zone, r.id)
                  /\ r.res.ready /\ r.res.bytes = 0
                  /\ r.issued \in {{}, {"create", "wait"}}

\* the snapshot was taken by an earlier request, and is answered again
C17_Witness ==
    \E c \in Callers :
        /\ Finished(c, "CreateSnapshot")
        /\ call[c].res.code = "OK"
        /\ call[c].issued = {}
        /\ Named(call[c].zone, call[c].id, call[c].name) = {call[c].snap}

(***************************************************************************)
(* Waiting for provider operations (SpecMutate).                           *)
(***************************************************************************)
\* the provider calls that change a resource
Mutations == {"create", "attach", "detach", "resize", "delete"}
\* the request answers success and its last provider call, a mutation or the
\* wait or read that followed one, was accepted
SucceededMutating(r) ==
    /\ r.pc = "done" /\ r.res.code = "OK"
    /\ r.issued \cap Mutations # {}
    /\ r.err = Nil

Cancelled(r) == r.pc = "done" /\ r.res.err = ErrCanceled

Digits == <<"0", "1", "2", "3", "4", "5", "6", "7", "8", "9">>
IsDigit(ch) == \E i \in 1..10 : Digits[i] = ch
DigitOf(ch) == (CHOOSE i \in 1..10 : Digits[i] = ch) - 1

RECURSIVE ParseDigits(_)
ParseDigits(s) ==
    IF s = <<>> THEN 0
    ELSE 10 * ParseDigits(SubSeq(s, 1, Len(s) - 1)) + DigitOf(s[Len(s)])

\* strconv.Atoi: an optional sign, then one decimal digit or more
Atoi(s) ==
    LET signed == s # <<>> /\ s[1] \in {"+", "-"}
        body == IF signed THEN Tail(s) ELSE s
    IN  IF body = <<>> \/ \E i \in 1..Len(body) : ~IsDigit(body[i])
        THEN [err |-> "invalid syntax", n |-> 0]
        ELSE [err |-> Nil,
              n |-> IF signed /\ s[1] = "-" THEN 0 - ParseDigits(body) ELSE ParseDigits(body)]

\* strconv.Itoa
RECURSIVE Itoa(_)
Itoa(n) ==
    IF n < 0 THEN <<"-">> \o Itoa(0 - n)
    ELSE IF n < 10 THEN <<Digits[n + 1]>>
    ELSE Itoa(n \div 10) \o <<Digits[(n % 10) + 1]>>

\* s[lo:hi] of a slice: a run-time panic when the bounds are out of range
Slice(s, lo, hi) ==
    IF lo < 0 \/ hi < lo \/ hi > Len(s) THEN [panic |-> TRUE, s |-> <<>>]
    ELSE [panic |-> FALSE, s |-> SubSeq(s, lo + 1, hi)]

\* a pagination whose next offset skips an entry
PaginateSkipping(entries, numberResults, maxEntries) ==
    [panic |-> FALSE,
     entries |-> SubSeq(entries, numberResults + 1, numberResults + maxEntries),
     next |-> IF numberResults + maxEntries >= Len(entries) THEN <<>>
              ELSE Itoa(numberResults + maxEntries + 1)]

\* the page of the entries at offset numberResults, and the token of the next
Paginate(entries, numberResults, maxEntries) ==
    LET rest == Slice(entries, numberResults, Len(entries))
        page == Slice(entries, numberResults, numberResults + maxEntries)
    IN  IF maxEntries = 0
        THEN IF numberResults # 0
             THEN [panic |-> rest.panic, entries |-> rest.s, next |-> <<>>]
             ELSE [panic |-> FALSE, entries |-> entries, next |-> <<>>]
        ELSE IF maxEntries > Len(entries) - numberResults
             THEN [panic |-> rest.panic, entries |-> rest.s, next |-> <<>>]
             ELSE [panic |-> page.panic, entries |-> page.s,
                   next |-> Itoa(numberResults + maxEntries)]

\* the order in which the provider answers zones, and resources in a zone
ZoneOrder == <<Zone1, Zone2>>
VolOrder == <<UuidOf("a"), UuidOf("b")>>
SnapOrder == <<UuidOf("a"), UuidAB, UuidOf("b")>>

VolumeEntry(zone, id) ==
    [id |-> exoscaleID(zone, id),
     bytes |-> convertGiBToBytes(vols[id].size),
     topology |-> newZoneTopology(zone),
     nodes |-> IF vols[id].instance # NoInstance
               THEN <<exoscaleID(zone, vols[id].instance)>> ELSE <<>>]
SnapshotEntry(zone, id) ==
    [id |-> exoscaleID(zone, id), source |-> exoscaleID(zone, snaps[id].vol), ready |-> TRUE]

\* the entries of one zone
ZoneEntries(kind, zone) ==
    LET InZoneVol(id) == VolIn(zone, id)
        InZoneSnap(id) == SnapIn(zone, id)
        volIds == SelectSeq(VolOrder, InZoneVol)
        snapIds == SelectSeq(SnapOrder, InZoneSnap)
    IN  IF kind = "volumes" THEN [i \in 1..Len(volIds) |-> VolumeEntry(zone, volIds[i])]
        ELSE [i \in 1..Len(snapIds) |-> SnapshotEntry(zone, snapIds[i])]

\* an aggregation that ends at the first zone where block storage is not
\* available
RECURSIVE AggregateUntilDown(_, _, _)
AggregateUntilDown(kind, zones, down) ==
    IF zones = <<>> \/ Head(zones) \in down THEN <<>>
    ELSE ZoneEntries(kind, Head(zones)) \o AggregateUntilDown(kind, Tail(zones), down)

\* the entries of every zone in turn, but of those where block storage is
\* not available
RECURSIVE Aggregate(_, _, _)
Aggregate(kind, zones, down) ==
    IF zones = <<>> THEN <<>>
    ELSE (IF Head(zones) \in down THEN <<>> ELSE ZoneEntries(kind, Head(zones)))
         \o Aggregate(kind, Tail(zones), down)

\* one request of the listing, with the token the last page answered:
\* ListZones may fail, and so may the list call of any zone (broken), for a
\* reason other than block storage not being available there
ListPage(kind) ==
    LET parsed == IF pager.token = <<>> THEN [err |-> Nil, n |-> 0] ELSE Atoi(pager.token) IN
    /\ pager.phase \in {"in", "more"} /\ pager.kind = kind
    /\ IF parsed.err # Nil
       THEN pager' = [pager EXCEPT !.phase = "aborted", !.code = "Aborted"]
       ELSE \E err \in ProviderAnswers(Nil), broken \in SUBSET Zones :
            IF err # Nil
            THEN pager' = [pager EXCEPT !.code = "Unknown", !.broken = {}]
            ELSE IF broken # {}
            THEN pager' = [pager EXCEPT !.code = "Unknown", !.broken = broken]
            ELSE LET p == Paginate(Aggregate(kind, ZoneOrder, pager.down), parsed.n,
                                   pager.maxEntries)
                 IN  IF p.panic
                     THEN pager' = [pager EXCEPT !.phase = "panic", !.code = "Panic",
                                                  !.broken = {}]
                     ELSE pager' = [pager EXCEPT
                                       !.phase = IF p.next = <<>> THEN "end" ELSE "more",
                                       !.code = "OK", !.broken = {},
                                       !.pages = Append(@, p.entries),
                                       !.token = p.next]
    /\ UNCHANGED <<codec, cap, vols, snaps, call, ncalls, hist, probe, host, nreq>>

ListVolumes == ListPage("volumes")
ListSnapshots == ListPage("snapshots")

\* the requests drawn: page sizes, starting tokens, zones without block storage
PageSizes == -1..MaxEntries
StartTokens == {<<>>, <<"1">>, <<"2">>, <<"4">>, <<"0", "1">>, <<"+", "1">>, <<"-", "1">>,
                <<"1", "0">>, <<"x">>}
VolStates == {NoVol, Vol("pvc-1", MinimalVolumeSizeGiB, Zone1),
              [Vol("pvc-2", MinimalVolumeSizeGiB + 1, Zone2) EXCEPT !.instance = UuidOf("a")]}
SnapStates == {NoSnap, Snap(Zone1, "snap-1", UuidOf("a")), Snap(Zone2, "snap-2", <<>>)}

InitPage ==
    /\ codec = CodecIdle /\ cap = CapIdle
    /\ call = [c \in Callers |-> Idle]
    /\ ncalls = 0
    /\ hist = HistIdle
    /\ NodeIdle
    /\ pager \in {[PagerIdle EXCEPT !.phase = "in", !.kind = k, !.maxEntries = n,
                                     !.start = t, !.token = t, !.down = d] :
                      k \in {"volumes", "snapshots"}, n \in PageSizes, t \in StartTokens,
                      d \in SUBSET Zones}
    /\ vols \in IF pager.kind = "volumes" THEN [VolIDs -> VolStates]
                ELSE {[id \in VolIDs |-> NoVol]}
    /\ snaps \in IF pager.kind = "snapshots" THEN [SnapIDs -> SnapStates]
                 ELSE {[id \in SnapIDs |-> NoSnap]}

NextPage == ListVolumes \/ ListSnapshots
SpecPage == InitPage /\ [][NextPage]_vars

RECURSIVE Flatten(_)
Flatten(pages) == IF pages = <<>> THEN <<>> ELSE Head(pages) \o Flatten(Tail(pages))

\* C15: for a provider state that does not change, a listing that starts
\* with the empty token and a page size above zero, and goes on with the
\* token each page answers, is never refused, answers pages no longer than
\* the page size that together are the first entries of the aggregated list
\* in its order, names as next token the number of entries answered, and
\* has answered the whole list when a page has no token; with a page size
\* of zero and an offset within the list, the one page is every entry from
\* the offset on and has no token
C15_Pagination ==
    LET all == Aggregate(pager.kind, ZoneOrder, pager.down)
        got == Flatten(pager.pages)
        off == IF pager.start = <<>> THEN [err |-> Nil, n |-> 0] ELSE Atoi(pager.start)
    IN  pager.phase # "off" =>
        /\ pager.start = <<>> /\ pager.maxEntries > 0 =>
              /\ pager.phase \in {"in", "more", "end"}
              /\ Len(got) <= Len(all) /\ got = SubSeq(all, 1, Len(got))
              /\ \A i \in 1..Len(pager.pages) : Len(pager.pages[i]) <= pager.maxEntries
              /\ pager.phase = "more" => pager.token = Itoa(Len(got))
              /\ pager.phase = "end" => got = all
        /\ pager.maxEntries = 0 /\ off.err = Nil /\ off.n \in 0..Len(all) =>
              /\ pager.phase \in {"in", "end"}
              /\ pager.phase = "end" =>
                    /\ pager.pages = <<SubSeq(all, off.n + 1, Len(all))>>
                    /\ pager.token = <<>>

C15_Witness ==
    /\ pager.phase = "end" /\ pager.kind = "snapshots"
    /\ pager.start = <<>> /\ pager.maxEntries = 2
    /\ Len(pager.pages) = 2
    /\ Len(Flatten(pager.pages)) = 3

\* the identifiers a listing answers for the resources of the zones where
\* block storage is available
Listable(kind, down) ==
    IF kind = "volumes"
    THEN {exoscaleID(vols[id].zone, id) : id \in {v \in VolIDs : vols[v].exists /\ vols[v].zone \notin down}}
    ELSE {exoscaleID(snaps[id].zone, id) : id \in {s \in SnapIDs : snaps[s].zone \in Zones \ down}}
AnsweredIds(pages) == {Flatten(pages)[i].id : i \in 1..Len(Flatten(pages))}

\* C30: a listing whose list call fails in some zone for a reason other
\* than block storage not being available there fails as a whole; the
\* zones where block storage is not available do not make it fail, every
\* entry answered names a resource of another zone under that zone's name,
\* and a listing followed to its end from the empty token has answered all
\* of these
C30_UnavailableZonesSkipped ==
    pager.phase # "off" =>
        /\ pager.broken # {} => pager.code = "Unknown"
        /\ pager.code = "OK" => pager.broken = {}
        /\ AnsweredIds(pager.pages) \subseteq Listable(pager.kind, pager.down)
        /\ pager.phase = "end" /\ pager.start = <<>> =>
              AnsweredIds(pager.pages) = Listable(pager.kind, pager.down)

C30_Witness ==
    /\ pager.phase = "end" /\ pager.start = <<>> /\ pager.code = "OK"
    /\ pager.kind = "volumes"
    /\ pager.down = {Zone1}
    /\ \E v \in VolIDs : vols[v].exists /\ vols[v].zone = Zone1
    /\ AnsweredIds(pager.pages) = {exoscaleID(Zone2, UuidOf("b"))}

(***************************************************************************)
(* Properties of the mount table read (SpecMountInfo).                     *)
(***************************************************************************)
\* the tag "shared", alone or with the number of a peer group
IsSharedTag(t) ==
    /\ Len(t) >= Len(TagShared) /\ SubSeq(t, 1, Len(TagShared)) = TagShared
    /\ Len(t) > Len(TagShared) => t[Len(TagShared) + 1] = ":"
\* the lines of the drawn table mounted on the path asked for
ProbeMatches == {i \in 1..Len(probe.table) : probe.table[i].mountPoint = probe.targetPath}
ProbeFirst == probe.table[CHOOSE i \in ProbeMatches : \A j \in ProbeMatches : i <= j]
ProbeShared == \E k \in 1..Len(ProbeFirst.optionalFields) : IsSharedTag(ProbeFirst.optionalFields[k])
ProbeRightDevice == probe.devicePath = <<>> \/ ProbeFirst.source = probe.devicePath

\* C29: IsSharedMounted answers true only for a path that is not empty and
\* whose first line in the mount table carries a shared tag and, when a
\* device path is given, has it as source; with the table read and a path
\* that is not empty, it answers false and no error when no line is mounted
\* on the path, and an error when the line is not shared or is mounted from
\* another device; it answers an error for the empty path
C29_SharedMountedOnlyIf ==
    probe.phase = "done" =>
        /\ probe.res.mounted =>
              /\ probe.targetPath # "" /\ ~probe.readErr /\ probe.res.err = Nil
              /\ ProbeMatches # {} /\ ProbeShared /\ ProbeRightDevice
        /\ probe.targetPath = "" => ~probe.res.mounted /\ probe.res.err # Nil
        /\ probe.targetPath # "" /\ ~probe.readErr =>
              /\ ProbeMatches = {} => ~probe.res.mounted /\ probe.res.err = Nil
              /\ ProbeMatches # {} /\ ~(ProbeShared /\ ProbeRightDevice) =>
                    ~probe.res.mounted /\ probe.res.err # Nil
              /\ ProbeMatches # {} /\ ProbeShared /\ ProbeRightDevice => probe.res.mounted

C29_Witness ==
    /\ probe.phase = "done" /\ probe.res.mounted
    /\ probe.devicePath = DevA /\ probe.targetPath = Target
    /\ Len(probe.table) = 2 /\ probe.table[1].mountPoint = Staging
    /\ probe.table[2].optionalFields = <<TagMaster, TagShared>>

(***************************************************************************)
(* The node's requests.                                                    *)
(***************************************************************************)
NodeDone(c, op) == nreq[c].pc = "done" /\ nreq[c].op = op
\* the request names a volume and carries a capability the driver supports
Decodes(r) == getExoscaleID(r.volumeId).err = Nil
Supported(r) == ~r.cap.isNil /\ r.cap.mode \in supportedAccessModes
\* the device of the request's volume on a host: attached as a block
\* device, or not there
DeviceOf(r) == ByIDPath(getExoscaleID(r.volumeId).id)
Attached(h, r) == h.dev[DeviceOf(r)].state = "device"
Missing(h, r) == h.dev[DeviceOf(r)].state = "absent"

\* C21: a NodeStageVolume request that is valid and carries a raw-block
\* capability leaves the host as it found it; with the device attached it
\* answers success after locating the device and nothing else (no read of
\* the mount table, no format, no mount); with the device not there it
\* answers NotFound
C21_BlockStageNoOp ==
    \A c \in Callers :
        LET r == nreq[c] IN
        (/\ NodeDone(c, "NodeStageVolume") /\ r.stagingTargetPath # ""
         /\ Supported(r) /\ r.cap.type = "block" /\ Decodes(r)) =>
            /\ State(host) = State(r.was)
            /\ Attached(r.was, r) => r.code = "OK" /\ r.ops = <<"GetDevicePath">>
            /\ Missing(r.was, r) => r.code = "NotFound"

C21_Witness ==
    /\ NodeDone("c1", "NodeStageVolume") /\ nreq["c1"].cap.type = "block"
    /\ nreq["c1"].code = "OK" /\ DeviceOf(nreq["c1"]) = DevA
    /\ host.dev[DevA].fs = "" /\ host.nodes[Staging] = "none" /\ host.formats = 0

\* a call of the host the request made
Ran(r, what) == \E i \in 1..Len(r.ops) : r.ops[i] = what
\* the first line of the table on a path is a shared mount
SharedOn(h, path) ==
    /\ MountsOn(h, path) # <<>>
    /\ \E k \in 1..Len(MountsOn(h, path)[1].optionalFields) :
          IsSharedTag(MountsOn(h, path)[1].optionalFields[k])

Republished(c) ==
    LET r == nreq[c] IN
    /\ NodeDone(c, "NodePublishVolume") /\ Decodes(r) /\ Supported(r)
    /\ r.targetPath # "" /\ r.stagingTargetPath # ""
    /\ Attached(r.was, r) /\ SharedOn(r.was, r.targetPath)
    /\ MountsOn(r.was, r.targetPath)[1].source = DeviceOf(r)
\* the publication found: its type, and its read-only state (the flag of
\* the device for raw block, the ro option of the mount for a file system)
FoundBlock(r) == MountsOn(r.was, r.targetPath)[1].block
FoundReadOnly(r) ==
    IF FoundBlock(r) THEN r.was.dev[DeviceOf(r)].ro
    ELSE "ro" \in {MountsOn(r.was, r.targetPath)[1].mountOptions[i] :
                     i \in 1..Len(MountsOn(r.was, r.targetPath)[1].mountOptions)}
AsAsked(r) == (FoundBlock(r) <=> r.cap.type = "block") /\ (FoundReadOnly(r) <=> r.readonly)

\* C24: NodePublishVolume on a target that is already a shared mount of the
\* volume's device, of the type and the read-only state asked for, answers
\* success, creates no mount point, mounts nothing and leaves the device
\* flag and the mount table as they were
C24_RepublishNoOp ==
    \A c \in Callers :
        Republished(c) /\ AsAsked(nreq[c]) =>
            /\ nreq[c].code = "OK"
            /\ State(host) = State(nreq[c].was)
            /\ ~Ran(nreq[c], "createMountPoint") /\ ~Ran(nreq[c], "MountToTarget")
            /\ ~Ran(nreq[c], "BLKROSET")

\* a read-only raw-block publication asked for again
C24_Witness ==
    /\ Republished("c1") /\ nreq["c1"].code = "OK"
    /\ nreq["c1"].cap.type = "block" /\ nreq["c1"].readonly
    /\ host.dev[DevA].ro /\ Len(host.mounts) = 1 /\ host.mounts[1].block

\* C25: NodePublishVolume on a target that is already a shared mount of the
\* volume's device, of another type or another read-only state than asked
\* for, answers AlreadyExists and leaves the mount table, the paths and the
\* device flags as they were
C25_RepublishMismatch ==
    \A c \in Callers :
        Republished(c) /\ ~AsAsked(nreq[c]) =>
            /\ nreq[c].code = "AlreadyExists"
            /\ State(host) = State(nreq[c].was)

\* a read-write file system publication asked for read-only
C25_Witness ==
    /\ Republished("c1") /\ nreq["c1"].code = "AlreadyExists"
    /\ nreq["c1"].cap.type = "mount" /\ nreq["c1"].readonly
    /\ ~FoundBlock(nreq["c1"]) /\ ~FoundReadOnly(nreq["c1"])
    /\ host.mounts = nreq["c1"].was.mounts

\* a valid NodePublishVolume request answered on a host where the volume's
\* device was attached and no line of the mount table was on the target path
Published(c) ==
    LET r == nreq[c] IN
    /\ NodeDone(c, "NodePublishVolume") /\ Decodes(r) /\ Supported(r)
    /\ r.targetPath # "" /\ r.stagingTargetPath # ""
    /\ Attached(r.was, r) /\ MountsOn(r.was, r.targetPath) = <<>>
\* the kind of mount point a capability needs
PointFor(r) == IF r.cap.type = "block" THEN "file" ELSE "dir"
Position(r, what) == CHOOSE i \in 1..Len(r.ops) : r.ops[i] = what
Options(r) == {r.mountOptions[i] : i \in 1..Len(r.mountOptions)}
\* the mount point is made before the mount; a path that is there already
\* and of the kind needed is no failure; a bind mount issued has the device
\* as source for raw block and the staging path for a file system; a
\* failure to make the mount point is Internal and no mount is tried
PublishSteps(c) ==
    LET r == nreq[c] IN
    /\ Ran(r, "createMountPoint")
    /\ Ran(r, "MountToTarget") =>
          /\ Position(r, "createMountPoint") < Position(r, "MountToTarget")
          /\ r.sourcePath = IF r.cap.type = "block" THEN DeviceOf(r) ELSE r.stagingTargetPath
    /\ r.was.nodes[r.targetPath] \in {"none", PointFor(r)} =>
          Ran(r, "MountToTarget") /\ host.nodes[r.targetPath] = PointFor(r)
    /\ r.was.nodes[r.targetPath] \notin {"none", PointFor(r)} =>
          /\ r.code = "Internal" /\ ~Ran(r, "MountToTarget")
          /\ host.mounts = r.was.mounts /\ host.nodes = r.was.nodes
    /\ r.code = "OK" =>
          /\ Len(MountsOn(host, r.targetPath)) = 1
          /\ MountsOn(host, r.targetPath)[1].block <=> r.cap.type = "block"

\* C26 as stated: publishing on a target that is not mounted makes the
\* mount point first, a file for raw block and a directory for a file
\* system, binds the device or the staging path, fails with Internal and
\* without a mount when the mount point cannot be made, and mounts with
\* options that contain bind, and ro exactly when readonly was asked for
C26_BindOptionsAsStated ==
    \A c \in Callers :
        Published(c) =>
            /\ PublishSteps(c)
            /\ Ran(nreq[c], "MountToTarget") =>
                  /\ "bind" \in Options(nreq[c])
                  /\ "ro" \in Options(nreq[c]) <=> nreq[c].readonly

\* C26, amended: the same, with the options being the mount flags of the
\* capability (none for raw block) followed by bind and, exactly when
\* readonly was asked for, by ro; they contain ro without readonly when the
\* flags carry it
C26_BindOptionsAppended ==
    \A c \in Callers :
        Published(c) =>
            /\ PublishSteps(c)
            /\ Ran(nreq[c], "MountToTarget") =>
                  /\ nreq[c].mountOptions =
                        (IF nreq[c].cap.type = "block" THEN <<>> ELSE nreq[c].mountFlags)
                        \o <<"bind">> \o (IF nreq[c].readonly THEN <<"ro">> ELSE <<>>)
                  /\ "bind" \in Options(nreq[c])
                  /\ nreq[c].readonly => "ro" \in Options(nreq[c])
                  /\ "ro" \in Options(nreq[c]) =>
                        nreq[c].readonly \/ (nreq[c].cap.type = "mount"
                                             /\ nreq[c].mountFlags = <<"ro">>)

\* a staged volume published read-only on a target path that was not there
C26_Witness ==
    /\ Published("c1") /\ nreq["c1"].code = "OK" /\ nreq["c1"].readonly
    /\ nreq["c1"].cap.type = "mount" /\ nreq["c1"].mountFlags = <<"noatime">>
    /\ nreq["c1"].was.nodes[Target] = "none" /\ host.nodes[Target] = "dir"
    /\ MountsOn(host, Staging) # <<>>
    /\ MountsOn(host, Target)[1].source = DevA

\* a valid NodeExpandVolume request answered on a host where the volume's
\* device was attached and the volume path was there
Expanded(c) ==
    LET r == nreq[c] IN
    /\ NodeDone(c, "NodeExpandVolume") /\ Decodes(r) /\ r.targetPath # ""
    /\ Attached(r.was, r) /\ r.was.nodes[r.targetPath] # "none"
    /\ r.cap.isNil \/ Supported(r)
\* the volume path shows a block device, or the capability given is raw block
BlockMode(r) ==
    \/ MountsOn(r.was, r.targetPath) # <<>>
       /\ MountsOn(r.was, r.targetPath)[Len(MountsOn(r.was, r.targetPath))].block
    \/ ~r.cap.isNil /\ r.cap.type = "block"
Utilities == {"resize2fs", "xfs_growfs", "btrfs"}
UtilityFor(fsType) ==
    IF fsType \in {"ext3", "ext4"} THEN {"resize2fs"}
    ELSE IF fsType = "xfs" THEN {"xfs_growfs"}
    ELSE IF fsType = "btrfs" THEN {"btrfs"}
    ELSE {}
RanUtilities(r) == {u \in Utilities : Ran(r, u)}

\* C27: NodeExpandVolume answers success and resizes nothing in block mode
\* (the volume path a block device, or the capability raw block); else,
\* with the mount table showing a file system on the volume path, it runs
\* resize2fs for ext3 and ext4, xfs_growfs for xfs, btrfs for btrfs and
\* nothing else, and for another file system it runs no utility and
\* answers an error; a utility runs in no other case
C27_ResizeByFsType ==
    \A c \in Callers :
        LET r == nreq[c]
            lines == MountsOn(r.was, r.targetPath)
        IN
        Expanded(c) =>
            /\ BlockMode(r) => r.code = "OK" /\ ~Ran(r, "Resize") /\ RanUtilities(r) = {}
            /\ ~BlockMode(r) /\ lines # <<>> =>
                  /\ RanUtilities(r) = UtilityFor(lines[1].fsType)
                  /\ UtilityFor(lines[1].fsType) # {} => r.code = "OK"
                  /\ UtilityFor(lines[1].fsType) = {} => r.code = "Internal"
            /\ RanUtilities(r) # {} => ~BlockMode(r) /\ lines # <<>>
            /\ State(host) = State(r.was)

\* a staged xfs volume grown
C27_Witness ==
    /\ Expanded("c1") /\ nreq["c1"].code = "OK" /\ nreq["c1"].targetPath = Staging
    /\ MountsOn(host, Staging) # <<>> /\ MountsOn(host, Staging)[1].fsType = "xfs"
    /\ RanUtilities(nreq["c1"]) = {"xfs_growfs"}

\* a valid NodeStageVolume request with a mount capability, answered
Staged(c) ==
    LET r == nreq[c] IN
    /\ NodeDone(c, "NodeStageVolume") /\ Decodes(r) /\ Supported(r)
    /\ r.cap.type = "mount" /\ r.stagingTargetPath # "" /\ Attached(r.was, r)
\* the staging path was a shared mount of the volume's device
WasStaged(r) ==
    /\ SharedOn(r.was, r.stagingTargetPath)
    /\ MountsOn(r.was, r.stagingTargetPath)[1].source = DeviceOf(r)
    /\ ~MountsOn(r.was, r.stagingTargetPath)[Len(MountsOn(r.was, r.stagingTargetPath))].block

\* C22: a filesystem NodeStageVolume on a staging path that is already a
\* shared mount of the volume's device answers success without
\* FormatAndMount and leaves the host as it was; and a NodeStageVolume that
\* follows a successful one of the same arguments finds the path so, hence
\* succeeds without FormatAndMount, the device never formatted twice
C22_StageIdempotent ==
    \A c \in Callers :
        LET r == nreq[c] IN
        /\ Staged(c) /\ WasStaged(r) =>
              r.code = "OK" /\ ~Ran(r, "FormatAndMount") /\ State(host) = State(r.was)
        /\ Staged(c) /\ r.was.last = Args(r) =>
              /\ WasStaged(r)
              /\ r.code = "OK" /\ ~Ran(r, "FormatAndMount") /\ State(host) = State(r.was)
              /\ host.formats <= 1

\* the third of three stagings of a blank device
C22_Witness ==
    /\ Staged("c1") /\ nreq["c1"].was.last = Args(nreq["c1"]) /\ nreq["c1"].code = "OK"
    /\ nreq["c1"].was.calls = 1 /\ host.formats = 1
    /\ Len(MountsOn(host, Staging)) = 1 /\ host.dev[DevA].fs = "xfs"

\* no request is between its check and its mount
Quiet == \A c \in Callers : nreq[c].pc \in {"idle", "done"}
\* the volume, the staging path and the file system of the two
\* NodeStageVolume requests that raced
RacedDevice(h) == ByIDPath(getExoscaleID(h.raced[2]).id)
RacedPath(h) == h.raced[3]
RacedFs(h) == IF h.raced[6] = "" THEN defaultFSType ELSE h.raced[6]
\* the device holds the file system the racing requests asked for, and the
\* staging directory, which the orchestrator makes before it asks for a
\* staging, is there
Fits(h) == h.dev[RacedDevice(h)].fs = RacedFs(h) /\ h.nodes[RacedPath(h)] = "dir"
\* the lines of the mount table that mount a device on a path
LinesOf(h, path, dev) ==
    {i \in 1..Len(h.mounts) : h.mounts[i].mountPoint = path /\ h.mounts[i].source = dev}

Unstaged(c) ==
    /\ NodeDone(c, "NodeUnstageVolume") /\ nreq[c].code = "OK"
    /\ Decodes(nreq[c]) /\ nreq[c].stagingTargetPath # ""

\* C32 as stated: after a NodeUnstageVolume that answers success nothing is
\* mounted on the staging path, whatever the host was like, the device
\* detached or the mount not shared
C32_UnstagedAlways ==
    \A c \in Callers :
        Unstaged(c) => MountsOn(host, nreq[c].stagingTargetPath) = <<>>

\* C32, amended: after a NodeUnstageVolume that answers success with the
\* volume's device on the host nothing is mounted on the staging path (a
\* staging mount that is not shared is answered with an error); with the
\* device not there the request answers success and leaves the host, and
\* whatever is mounted on the staging path, as it was
C32_UnstagedWithDevice ==
    \A c \in Callers :
        LET r == nreq[c] IN
        /\ Unstaged(c) /\ Attached(r.was, r) => MountsOn(host, r.stagingTargetPath) = <<>>
        /\ Unstaged(c) /\ Missing(r.was, r) => State(host) = State(r.was)
        /\ (/\ NodeDone(c, "NodeUnstageVolume") /\ Decodes(r) /\ r.stagingTargetPath # ""
            /\ Attached(r.was, r) /\ MountsOn(r.was, r.stagingTargetPath) # <<>>
            /\ ~SharedOn(r.was, r.stagingTargetPath)) => r.code = "Internal"

\* a staged volume unstaged with its device on the host
C32_Witness ==
    /\ Unstaged("c1") /\ Attached(nreq["c1"].was, nreq["c1"])
    /\ LinesOf(nreq["c1"].was, Staging, DevA) # {} /\ host.mounts = <<>>
    /\ host.nodes[Staging] = "none"

\* a NodePublishVolume request for a supported mount capability that names
\* a volume, a target path and a staging path
PublishesFilesystem(c) ==
    /\ NodeDone(c, "NodePublishVolume") /\ Decodes(nreq[c]) /\ Supported(nreq[c])
    /\ nreq[c].cap.type = "mount"
    /\ nreq[c].targetPath # "" /\ nreq[c].stagingTargetPath # ""

\* C33: NodePublishVolume for a mount capability answers success only if the
\* staging path is a mount of the volume's device, as NodeStageVolume leaves
\* it; with the staging path not such a mount it answers FailedPrecondition
\* and binds nothing
C33_PublishNeedsStaged ==
    \A c \in Callers :
        LET r == nreq[c] IN
        PublishesFilesystem(c) =>
            /\ r.code = "OK" => WasStaged(r)
            /\ ~WasStaged(r) =>
                  r.code = "FailedPrecondition" /\ ~Ran(r, "MountToTarget")

\* C34: a NodePublishVolume that answers an error leaves the host as it found
\* it: the mount table, the paths (no mount point made at the target) and
\* the read-only flag of the block device
C34_FailedPublishLeavesHost ==
    \A c \in Callers :
        NodeDone(c, "NodePublishVolume") /\ nreq[c].code # "OK" =>
            /\ host.mounts = nreq[c].was.mounts
            /\ host.nodes = nreq[c].was.nodes
            /\ host.dev = nreq[c].was.dev

\* C35: ListVolumes and ListSnapshots never panic on a starting token that
\* is an integer: a token below zero or above the number of aggregated
\* entries is answered with an error or with an empty page, whatever the
\* page size
C35_ListNeverPanics ==
    LET off == IF pager.start = <<>> THEN [err |-> Nil, n |-> 0] ELSE Atoi(pager.start) IN
    pager.phase # "off" /\ off.err = Nil =>
        /\ pager.phase # "panic"
        /\ (/\ pager.code = "OK" /\ Len(pager.pages) = 1
            /\ (off.n < 0 \/ off.n > Len(Aggregate(pager.kind, ZoneOrder, pager.down))))
              => pager.pages[1] = <<>>

\* C36: the token a page of ListVolumes or ListSnapshots answers is there
\* exactly when entries remain after the page: a page that ends at the last
\* aggregated entry answers no token, and a token answered is the offset
\* plus the page size and lies below the number of entries
C36_NextTokenIffMore ==
    LET all == Aggregate(pager.kind, ZoneOrder, pager.down)
        off == IF pager.start = <<>> THEN [err |-> Nil, n |-> 0] ELSE Atoi(pager.start)
        end == off.n + Len(Flatten(pager.pages))
    IN  (/\ pager.phase \in {"more", "end"} /\ pager.code = "OK"
         /\ off.err = Nil /\ off.n \in 0..Len(all) /\ pager.maxEntries > 0) =>
            /\ pager.token # <<>> <=> end < Len(all)
            /\ pager.token # <<>> =>
                  /\ pager.token = Itoa(end)
                  /\ Len(pager.pages[Len(pager.pages)]) = pager.maxEntries
                  /\ Atoi(pager.token).n < Len(all)

\* C37: a CreateSnapshot whose fetch of the source volume, or of one of its
\* snapshots, fails answers an error: it does not go on with the missing
\* result (a nil dereference) and asks the provider for no snapshot
C37_FetchFailureAnswered ==
    \A c \in Callers :
        Finished(c, "CreateSnapshot") =>
            /\ call[c].res.code # "Panic"
            /\ call[c].err # Nil => call[c].res.code # "OK"
            /\ (call[c].err # Nil /\ "create" \notin call[c].issued) =>
                  call[c].res.err = call[c].err

\* C38: NodeExpandVolume for a file system volume whose path is there and
\* has no line in the mount table answers an error status: Resize does not
\* read the file system type of the record GetMountInfo did not find
C38_ExpandUnmountedAnswered ==
    \A c \in Callers :
        LET r == nreq[c] IN
        Expanded(c) /\ ~BlockMode(r) /\ MountsOn(r.was, r.targetPath) = <<>> =>
            r.code \notin {"OK", "Panic"}

C40_LifecycleRoundTrip ==
    /\ host.trip.at = 1 => MountsOn(host, Staging) # <<>> /\ MountsOn(host, Target) = <<>>
    /\ host.trip.at = 2 => MountsOn(host, Staging) # <<>> /\ MountsOn(host, Target) # <<>>
    /\ host.trip.at = 3 => MountsOn(host, Staging) # <<>> /\ MountsOn(host, Target) = <<>>
    /\ host.trip.at >= 4 =>
          /\ host.mounts = host.trip.first
          /\ MountsOn(host, Staging) = <<>> /\ MountsOn(host, Target) = <<>>
    /\ \A c \in Callers :
          (/\ NodeDone(c, "NodeUnpublishVolume") /\ nreq[c].targetPath = Target
           /\ nreq[c].was.trip.at >= 3) =>
              nreq[c].code = "OK" /\ host.mounts = nreq[c].was.mounts

\* the four requests answered, and the target unpublished once more
C40_Witness ==
    /\ host.trip.at = Len(Lifecycle)
    /\ NodeDone("c1", "NodeUnpublishVolume") /\ nreq["c1"].code = "OK"
    /\ nreq["c1"].was.trip.at = 4 /\ host.mounts = <<>>

====
